---- MODULE Spec2Model ----
(***************************************************************************)
(* Model of the cinemood recommendation pipeline: the response cache       *)
(* (app/services/cache_service.py, app/models/llm_cache.py), the in-memory *)
(* similarity index (app/services/similarity_service.py), the generative   *)
(* ranker (app/services/llm_service.py) and the orchestrator               *)
(* (app/services/recommendation_service.py).                               *)
(*                                                                         *)
(* Specifications:                                                         *)
(*   SpecKey    CacheService.compute_hash on the orchestrator's key dict   *)
(*   SpecFields CacheService.compute_hash, profiles differing in any field *)
(*   SpecCache  CacheService.get / set / cleanup_expired on one session    *)
(*   SpecSim    SimilarityService.load_embeddings / find_similar           *)
(*   SpecLLM    LLMService.generate                                        *)
(*   Spec       RecommendationService.get_recommendations, sequentially    *)
(*   SpecLimiter      RateLimiter.acquire, one call after another          *)
(*   SpecLimiterConc  RateLimiter.acquire, callers interleaving            *)
(*   SpecLimiterLive  RateLimiter.acquire, callers interleaving, fairness  *)
(*   SpecCacheConc    CacheService.set, callers interleaving, cancellation *)
(*   SpecGetConc      CacheService.get, callers interleaving               *)
(*   SpecOne          get_recommendations, one request, larger catalog     *)
(*   SpecLoop         get_recommendations, requests interleaving           *)
(*   SpecCatalog      FilmService.get_films_with_embeddings on SQLite      *)
(*   SpecRank         get_recommendations, one request, live, ranker fails *)
(***************************************************************************)
EXTENDS Integers, Sequences, FiniteSets, TLC

VARIABLES
    now,              \* wall clock (datetime.utcnow / time.time), seconds
    llm_cache,        \* rows of table llm_cache
    film_ids,         \* SimilarityService.film_ids
    film_embeddings,  \* SimilarityService.film_embeddings (None or matrix)
    requests,         \* RateLimiter.requests
    initialized,      \* LLMService._initialized
    settings,         \* app.config.settings (llm_mock_mode, gemini_api_key)
    films,            \* rows of table films joined with embeddings
    call,             \* the latest call: its arguments and its outcome
    prev,             \* the call before it
    lastSet,          \* history: per cache key, the latest CacheService.set
    tasks,            \* the coroutines in flight: where each stands, its locals
    admitted          \* history: the instants at which acquire returned

vars == <<now, llm_cache, film_ids, film_embeddings, requests, initialized,
          settings, films, call, prev, lastSet, tasks, admitted>>

\* Python's None, and the JSON null it is serialised to
None == "None"
JsonNull == "null"

(***************************************************************************)
(* Generic sequence helpers                                                *)
(***************************************************************************)
Range(s) == {s[i] : i \in 1..Len(s)}

Min(a, b) == IF a <= b THEN a ELSE b

Max(a, b) == IF a >= b THEN a ELSE b

\* s[:n]
Take(s, n) == SubSeq(s, 1, Min(n, Len(s)))

\* s[a:b] with 0-based Python bounds 0 <= a
Slice(s, a, b) == SubSeq(s, a + 1, Min(b, Len(s)))

SeqsUpTo(S, n) == UNION {[1..k -> S] : k \in 0..n}

InjectiveSeqsUpTo(S, n) ==
    {s \in SeqsUpTo(S, n) : \A i, j \in 1..Len(s) : i # j => s[i] # s[j]}

IsPermutationOf(s, t) ==
    /\ Len(s) = Len(t)
    /\ \E f \in [1..Len(s) -> 1..Len(s)] :
          /\ \A i, j \in 1..Len(s) : i # j => f[i] # f[j]
          /\ \A i \in 1..Len(s) : t[i] = s[f[i]]

(***************************************************************************)
(* Bounds of the model                                                     *)
(***************************************************************************)
\* longest platform / genre list of a request
MaxList == 2

(***************************************************************************)
(* Request vocabulary                                                      *)
(***************************************************************************)
\* str comparison is by code point: upper case sorts before lower case
CodepointOrder == <<"Comedie", "Drame", "Netflix", "Prime", "other", "surprise">>

StrRank(s) == CHOOSE i \in 1..Len(CodepointOrder) : CodepointOrder[i] = s

StrLessEq(a, b) == StrRank(a) <= StrRank(b)

PlatformLabels == {"Netflix", "Prime", "other"}

GenreLabels == {"Comedie", "Drame", "surprise"}

Durations == {"<90", "90-120", ">120", "any"}

(***************************************************************************)
(* sorted(list): the ascending stable sort of a list of str                *)
(***************************************************************************)
RECURSIVE InsertSorted(_, _)
InsertSorted(x, s) ==
    IF s = <<>> THEN <<x>>
    ELSE IF StrLessEq(Head(s), x) THEN <<Head(s)>> \o InsertSorted(x, Tail(s))
    ELSE <<x>> \o s

RECURSIVE Sorted(_)
Sorted(s) ==
    IF s = <<>> THEN <<>>
    ELSE InsertSorted(s[Len(s)], Sorted(SubSeq(s, 1, Len(s) - 1)))

(***************************************************************************)
(* CacheService.compute_hash                                               *)
(***************************************************************************)
\* the keys of the orchestrator's dict in the order sort_keys=True emits them
SortedKeys == <<"deep_answer", "deep_question_id", "duration", "genres", "mood",
                "platforms">>

\* json.dumps(data, sort_keys=True): the members in key order
JsonDumpsSortKeys(data) ==
    LET present == SelectSeq(SortedKeys, LAMBDA k : k \in DOMAIN data)
    IN [i \in 1..Len(present) |-> <<present[i], data[present[i]]>>]

LowerHexDigits == "0123456789abcdef"

\* hashlib.sha256(...).hexdigest(): a function of the serialised text alone,
\* taken collision free, written as 64 lowercase hexadecimal digits
Sha256Hex(text) == [digest_of |-> text, length |-> 64, alphabet |-> LowerHexDigits]

compute_hash(data) == Sha256Hex(JsonDumpsSortKeys(data))

\* the key computed from the lists as the client sent them
CacheKeyNoSort(answers) ==
    compute_hash([mood |-> answers.mood,
                  duration |-> answers.duration,
                  platforms |-> answers.platforms,
                  genres |-> answers.genres,
                  deep_question_id |-> answers.deep_question_id,
                  deep_answer |-> answers.deep_answer])

\* a key that leaves the deep-question answer out
CacheKeyWithoutAnswer(answers) ==
    compute_hash([mood |-> answers.mood,
                  duration |-> answers.duration,
                  platforms |-> Sorted(answers.platforms),
                  genres |-> Sorted(answers.genres),
                  deep_question_id |-> answers.deep_question_id])

\* the cache key of a request (get_recommendations, step 1)
CacheKey(answers) ==
    compute_hash([mood |-> answers.mood,
                  duration |-> answers.duration,
                  platforms |-> Sorted(answers.platforms),
                  genres |-> Sorted(answers.genres),
                  deep_question_id |-> answers.deep_question_id,
                  deep_answer |-> answers.deep_answer])

(***************************************************************************)
(* The clock.  Time is in seconds; the clock moves by ClockStep (half a    *)
(* rate-limiter window) or by one cache TTL, so that an entry is read      *)
(* before, exactly at and after its expiry.                                *)
(***************************************************************************)
TTL_DAYS == 7

TtlSeconds == TTL_DAYS * 86400

ClockStep == 30

\* most seconds the clock drifts past a multiple of the TTL
MaxDrift == 60

\* most TTL-long jumps of the clock
MaxTtlJumps == 1

ClockOk(t) ==
    /\ t % TtlSeconds <= MaxDrift
    /\ t \div TtlSeconds <= MaxTtlJumps

\* time passes; a coroutine asleep is woken when its sleep is due, not later
Tick ==
    /\ \E d \in {ClockStep, TtlSeconds} :
          /\ ClockOk(now + d)
          /\ \A i \in 1..Len(tasks) :
                tasks[i].pc = "sleeping" => now + d <= tasks[i].wake_at
          /\ now' = now + d
    /\ UNCHANGED <<llm_cache, film_ids, film_embeddings, requests, initialized,
                   settings, films, call, prev, lastSet, tasks, admitted>>

(***************************************************************************)
(* LLMCache (app/models/llm_cache.py)                                      *)
(***************************************************************************)
\* LLMCache.create_with_ttl at time t
create_with_ttl(input_hash, response, ttl_days, t) ==
    [input_hash |-> input_hash,
     response   |-> response,
     created_at |-> t,
     expires_at |-> t + ttl_days * 86400]

is_expired_inclusive(row, t) == t >= row.expires_at

\* LLMCache.is_expired at time t
is_expired(row, t) == t > row.expires_at

(***************************************************************************)
(* CacheService (app/services/cache_service.py), on one database session.  *)
(* Each operator gives the outcome of the call at time t on table `table`: *)
(* the value returned, the exception raised and the table as committed.    *)
(***************************************************************************)
RowsOf(table, input_hash) == {r \in table : r.input_hash = input_hash}

\* Result.scalar_one_or_none: the rows matched, and what the call raises
ScalarOneOrNone(rows) ==
    [raised |-> IF Cardinality(rows) > 1 THEN "MultipleResultsFound" ELSE None,
     rows   |-> rows]

TheRow(found) == CHOOSE r \in found.rows : TRUE

\* what a call hands back where Python has Optional[str]: None, or a text
Absent == [is_none |-> TRUE]

Text(s) == [is_none |-> FALSE, text |-> s]

CacheGetKeepExpired(table, input_hash, t) ==
    LET found == ScalarOneOrNone(RowsOf(table, input_hash))
    IN IF found.raised # None
       THEN [result |-> Absent, raised |-> found.raised, table |-> table]
       ELSE IF found.rows = {}
       THEN [result |-> Absent, raised |-> None, table |-> table]
       ELSE IF is_expired(TheRow(found), t)
       THEN [result |-> Absent, raised |-> None, table |-> table]
       ELSE [result |-> Text(TheRow(found).response), raised |-> None, table |-> table]

CacheGetRefreshing(table, input_hash, t) ==
    LET found == ScalarOneOrNone(RowsOf(table, input_hash))
    IN IF found.raised # None
       THEN [result |-> Absent, raised |-> found.raised, table |-> table]
       ELSE IF found.rows = {}
       THEN [result |-> Absent, raised |-> None, table |-> table]
       ELSE IF is_expired(TheRow(found), t)
       THEN [result |-> Absent, raised |-> None, table |-> table \ found.rows]
       ELSE [result |-> Text(TheRow(found).response), raised |-> None,
             table |-> (table \ found.rows) \cup
                          {[TheRow(found) EXCEPT !.expires_at = t + TtlSeconds]}]

\* CacheService.get
CacheGet(table, input_hash, t) ==
    LET found == ScalarOneOrNone(RowsOf(table, input_hash))
    IN IF found.raised # None
       THEN [result |-> Absent, raised |-> found.raised, table |-> table]
       ELSE IF found.rows = {}
       THEN [result |-> Absent, raised |-> None, table |-> table]
       ELSE IF is_expired(TheRow(found), t)
       THEN [result |-> Absent, raised |-> None, table |-> table \ found.rows]
       ELSE [result |-> Text(TheRow(found).response), raised |-> None, table |-> table]

CacheSetWithoutSecondary(table, input_hash, response, t) ==
    [result |-> Absent, raised |-> None,
     table |-> {row \in table : row.input_hash # input_hash} \cup
                  {create_with_ttl(input_hash, [response EXCEPT !.secondary = <<>>],
                                   TTL_DAYS, t)}]

CacheSetKeepingExpiry(table, input_hash, response, t) ==
    LET found == RowsOf(table, input_hash)
    IN [result |-> Absent, raised |-> None,
        table |-> IF found = {}
                  THEN table \cup {create_with_ttl(input_hash, response, TTL_DAYS, t)}
                  ELSE (table \ found) \cup
                          {[row EXCEPT !.response = response] : row \in found}]

\* CacheService.set
CacheSet(table, input_hash, response, t) ==
    LET found == ScalarOneOrNone(RowsOf(table, input_hash))
    IN IF found.raised # None
       THEN [result |-> Absent, raised |-> found.raised, table |-> table]
       ELSE IF found.rows # {}
       THEN LET cache_entry == create_with_ttl(input_hash, response, TTL_DAYS, t)
                updated == [TheRow(found) EXCEPT !.response = response,
                                                 !.created_at = t,
                                                 !.expires_at = cache_entry.expires_at]
            IN [result |-> Absent, raised |-> None,
                table |-> (table \ found.rows) \cup {updated}]
       ELSE [result |-> Absent, raised |-> None,
             table |-> table \cup {create_with_ttl(input_hash, response, TTL_DAYS, t)}]

CacheCleanupInclusive(table, t) ==
    LET gone == {r \in table : r.expires_at <= t}
    IN [result |-> Cardinality(gone), raised |-> None, table |-> table \ gone]

\* CacheService.cleanup_expired
CacheCleanupExpired(table, t) ==
    LET gone == {r \in table : r.expires_at < t}
    IN [result |-> Cardinality(gone), raised |-> None, table |-> table \ gone]

(***************************************************************************)
(* State the specifications start from: a fresh process (nothing loaded,   *)
(* no call made yet) over an empty cache table.                            *)
(***************************************************************************)
NoCall == [op |-> "none"]

\* SimilarityService.film_embeddings before the first load_embeddings
NoMatrix == [is_none |-> TRUE]

DefaultSettings == [llm_mock_mode |-> FALSE, gemini_api_key |-> ""]

FreshProcess ==
    /\ now = 0
    /\ llm_cache = {}
    /\ film_ids = <<>>
    /\ film_embeddings = NoMatrix
    /\ requests = <<>>
    /\ initialized = FALSE
    /\ prev = NoCall
    /\ lastSet = <<>>
    /\ tasks = <<>>
    /\ admitted = <<>>

(***************************************************************************)
(* SpecKey: the cache key of two requests whose platform and genre lists   *)
(* have the same lengths.                                                  *)
(***************************************************************************)
KeyMoods == {"stresse, besoin de rire", "calme"}

KeyGenreLabels == {"Comedie", "surprise"}

KeyQuestionTexts == {"q-text-a", "q-text-b"}

KeyInit ==
    /\ FreshProcess
    /\ settings = DefaultSettings
    /\ films = {}
    /\ \E mood \in KeyMoods,
          pl1 \in SeqsUpTo(PlatformLabels, MaxList),
          ge1 \in SeqsUpTo(KeyGenreLabels, MaxList),
          qt2 \in KeyQuestionTexts :
          \E pl2 \in [1..Len(pl1) -> PlatformLabels],
             ge2 \in [1..Len(ge1) -> KeyGenreLabels] :
             call = [op |-> "input",
                     p1 |-> [mood |-> mood, duration |-> "any",
                             platforms |-> pl1, genres |-> ge1,
                             deep_question_id |-> 1,
                             deep_question_text |-> "q-text-a",
                             deep_answer |-> "answer"],
                     p2 |-> [mood |-> mood, duration |-> "any",
                             platforms |-> pl2, genres |-> ge2,
                             deep_question_id |-> 1,
                             deep_question_text |-> qt2,
                             deep_answer |-> "answer"]]

\* both requests reach step 1 of get_recommendations
KeyCompute ==
    /\ call.op = "input"
    /\ call' = [op |-> "compute_hash", p1 |-> call.p1, p2 |-> call.p2,
                k1 |-> CacheKey(call.p1), k2 |-> CacheKey(call.p2)]
    /\ UNCHANGED <<now, llm_cache, film_ids, film_embeddings, requests,
                   initialized, settings, films, prev, lastSet, tasks, admitted>>

KeyNext == KeyCompute

SpecKey == KeyInit /\ [][KeyNext]_vars

\* P1 and P2 differ only in the order of their platform and genre lists
DifferOnlyInListOrder(p1, p2) ==
    /\ p1.mood = p2.mood
    /\ p1.duration = p2.duration
    /\ p1.deep_question_id = p2.deep_question_id
    /\ p1.deep_question_text = p2.deep_question_text
    /\ p1.deep_answer = p2.deep_answer
    /\ IsPermutationOf(p1.platforms, p2.platforms)
    /\ IsPermutationOf(p1.genres, p2.genres)

\* C6: two request profiles that differ only in the order of the elements of
\* their platform list and/or genre list get the same cache key.
C6_KeyOrderIndependent ==
    (call.op = "compute_hash" /\ DifferOnlyInListOrder(call.p1, call.p2))
        => call.k1 = call.k2

\* C6 witness: keys were computed for two profiles whose platform lists and
\* genre lists are each other's reordering, and not equal as lists.
C6_Witness ==
    /\ call.op = "compute_hash"
    /\ DifferOnlyInListOrder(call.p1, call.p2)
    /\ call.p1.platforms # call.p2.platforms
    /\ call.p1.genres # call.p2.genres
    /\ call.k1 = call.k2

(***************************************************************************)
(* SpecFields: the cache key of two requests that may differ in any field. *)
(***************************************************************************)
KeyProfiles ==
    [mood : KeyMoods,
     duration : {"any", "<90"},
     platforms : {<<>>, <<"Netflix", "Prime">>, <<"Prime", "Netflix">>},
     genres : {<<"Comedie">>, <<"surprise">>},
     deep_question_id : {1, 2},
     deep_question_text : KeyQuestionTexts,
     deep_answer : {"answer", "autre"}]

FieldsInit ==
    /\ FreshProcess
    /\ settings = DefaultSettings
    /\ films = {}
    /\ \E p1, p2 \in KeyProfiles : call = [op |-> "input", p1 |-> p1, p2 |-> p2]

FieldsNext == KeyCompute

SpecFields == FieldsInit /\ [][FieldsNext]_vars

\* P1 and P2 have the same mood text, duration bucket, sorted platform list,
\* sorted genre list, deep-question id and deep-question answer
AgreeOnKeyFields(p1, p2) ==
    /\ p1.mood = p2.mood
    /\ p1.duration = p2.duration
    /\ Sorted(p1.platforms) = Sorted(p2.platforms)
    /\ Sorted(p1.genres) = Sorted(p2.genres)
    /\ p1.deep_question_id = p2.deep_question_id
    /\ p1.deep_answer = p2.deep_answer

IsSha256Hex(key) == key.length = 64 /\ key.alphabet = LowerHexDigits

\* C35: two request profiles get the same cache key exactly when they agree
\* on the six key fields, whatever their deep-question texts; a key is 64
\* lowercase hexadecimal digits.
C35_KeyOfSixFields ==
    call.op = "compute_hash" =>
       /\ (call.k1 = call.k2) <=> AgreeOnKeyFields(call.p1, call.p2)
       /\ IsSha256Hex(call.k1) /\ IsSha256Hex(call.k2)

\* two profiles with different deep-question texts and platform lists in
\* different orders got the same key
C35_Witness ==
    /\ call.op = "compute_hash"
    /\ call.p1.deep_question_text # call.p2.deep_question_text
    /\ call.p1.platforms # call.p2.platforms
    /\ AgreeOnKeyFields(call.p1, call.p2)
    /\ call.k1 = call.k2

(***************************************************************************)
(* SpecCache: calls of CacheService on one session, one after another.     *)
(***************************************************************************)
CacheKeys == {"hash-a", "hash-b"}

Payloads == {"payload-1", "payload-2"}

CacheInit ==
    /\ FreshProcess
    /\ settings = DefaultSettings
    /\ films = {}
    /\ call = NoCall

CacheCallGet ==
    \E k \in CacheKeys :
       LET out == CacheGet(llm_cache, k, now)
       IN /\ llm_cache' = out.table
          /\ prev' = call
          /\ call' = [op |-> "get", key |-> k, at |-> now,
                      pre |-> RowsOf(llm_cache, k),
                      result |-> out.result, raised |-> out.raised]
          /\ UNCHANGED <<now, film_ids, film_embeddings, requests, initialized,
                         settings, films, lastSet, tasks, admitted>>

CacheCallSet ==
    \E k \in CacheKeys, payload \in Payloads :
       LET out == CacheSet(llm_cache, k, payload, now)
       IN /\ llm_cache' = out.table
          /\ prev' = call
          /\ call' = [op |-> "set", key |-> k, at |-> now,
                      pre |-> RowsOf(llm_cache, k),
                      result |-> out.result, raised |-> out.raised]
          /\ lastSet' = [x \in DOMAIN lastSet \cup {k} |->
                           IF x = k
                           THEN [payload |-> payload,
                                 expires_at |->
                                    (CHOOSE r \in RowsOf(out.table, k) : TRUE).expires_at]
                           ELSE lastSet[x]]
          /\ UNCHANGED <<now, film_ids, film_embeddings, requests, initialized,
                         settings, films, tasks, admitted>>

CacheCallCleanup ==
    LET out == CacheCleanupExpired(llm_cache, now)
    IN /\ llm_cache' = out.table
       /\ prev' = call
       /\ call' = [op |-> "cleanup_expired", key |-> None, at |-> now,
                   pre |-> llm_cache,
                   result |-> Absent, count |-> out.result, raised |-> out.raised]
       /\ UNCHANGED <<now, film_ids, film_embeddings, requests, initialized,
                      settings, films, lastSet, tasks, admitted>>

CacheNext == CacheCallGet \/ CacheCallSet \/ CacheCallCleanup \/ Tick

SpecCache == CacheInit /\ [][CacheNext]_vars

\* the rows of a table under other keys than key
RowsOfOthers(table, key) == {row \in table : row.input_hash # key}

\* C24: a set does not raise and leaves exactly one entry for its key, with
\* the payload given and an expiry seven days after the write, whether the
\* key had an entry or not; the entries of the other keys are as they were.
C24_SetOverwritesAndRefreshes ==
    [][(call'.op = "set" /\ call'.at = now' /\ now' = now) =>
          /\ call'.raised = None
          /\ RowsOfOthers(llm_cache', call'.key) = RowsOfOthers(llm_cache, call'.key)
          /\ \E row \in llm_cache' :
                /\ RowsOf(llm_cache', call'.key) = {row}
                /\ row.response = lastSet'[call'.key].payload
                /\ row.expires_at = now + TTL_DAYS * 86400]_vars

\* a set that replaced an older entry of its key, its payload and its
\* expiry, beside the entry of another key
C24_Witness ==
    /\ call.op = "set" /\ call.raised = None
    /\ \E old \in call.pre, row \in llm_cache :
          /\ RowsOf(llm_cache, call.key) = {row}
          /\ row.response # old.response
          /\ row.expires_at > old.expires_at
          /\ row.expires_at = call.at + TTL_DAYS * 86400
    /\ RowsOfOthers(llm_cache, call.key) # {}

\* C25: cleanup_expired removes the entries whose expiry is before the
\* instant of the call and no other, and returns how many they were; an
\* entry that get returns at that instant is still there afterwards.
C25_CleanupExactlyExpired ==
    call.op = "cleanup_expired" =>
       /\ call.raised = None
       /\ llm_cache = {row \in call.pre : ~(row.expires_at < call.at)}
       /\ call.count = Cardinality(call.pre \ llm_cache)
       /\ \A row \in call.pre :
             ~CacheGet(call.pre, row.input_hash, call.at).result.is_none
                => row \in llm_cache

\* a cleanup that removed an entry and kept one expiring at that very instant
C25_Witness ==
    /\ call.op = "cleanup_expired"
    /\ call.count = 1
    /\ \E row \in llm_cache : row.expires_at = call.at /\ row \in call.pre

\* C7: a get of a key at a time not later than the expiry of the entry the
\* latest set of that key wrote returns exactly the payload of that set.
C7_SetGetRoundTrip ==
    (/\ call.op = "get"
     /\ call.key \in DOMAIN lastSet
     /\ call.at <= lastSet[call.key].expires_at)
        => (call.raised = None /\ call.result = Text(lastSet[call.key].payload))

\* C7 witness: a get exactly at the expiry instant of an entry that was
\* overwritten once returned the stored payload.
C7_Witness ==
    /\ call.op = "get"
    /\ call.key \in DOMAIN lastSet
    /\ call.at = lastSet[call.key].expires_at
    /\ call.at > 0
    /\ call.result = Text(lastSet[call.key].payload)

\* the call found one entry for its key, already expired when it ran
FoundExpired(c) ==
    /\ c.op = "get"
    /\ \E r \in c.pre : c.at > r.expires_at

\* C8: a get that finds its entry expired returns absent without raising and
\* leaves no entry for the key; the get of the same key that follows it
\* returns absent without raising too.
C8_ExpiredGetAbsent ==
    /\ FoundExpired(call) =>
          (/\ call.result = Absent
           /\ call.raised = None
           /\ RowsOf(llm_cache, call.key) = {})
    /\ (FoundExpired(prev) /\ call.op = "get" /\ call.key = prev.key) =>
          (/\ call.result = Absent
           /\ call.raised = None
           /\ call.pre = {}
           /\ RowsOf(llm_cache, call.key) = {})

\* C8 witness: two gets of the same key in a row, the first of which found
\* the entry expired.
C8_Witness ==
    /\ FoundExpired(prev)
    /\ call.op = "get"
    /\ call.key = prev.key
    /\ call.result = Absent

(***************************************************************************)
(* Vectors.  float32 arithmetic is modelled in fixed point: the real x is  *)
(* the integer nearest to x * Scale, and every operation rounds to the     *)
(* nearest such integer.  Raw vectors have two small integer components    *)
(* (the zero vector, a unit vector, its opposite, a diagonal).             *)
(***************************************************************************)
Scale == 100

RawVectors == {<<0, 0>>, <<1, 0>>, <<-1, 0>>, <<1, 1>>}

ZeroVector == <<0, 0>>

RECURSIVE SumTo(_, _)
SumTo(f, n) == IF n = 0 THEN 0 ELSE f[n] + SumTo(f, n - 1)

Dot(a, b) == SumTo([i \in 1..Len(a) |-> a[i] * b[i]], Len(a))

\* a / b rounded to the nearest integer, b > 0
RoundDiv(a, b) == (2 * a + b) \div (2 * b)

RECURSIVE ISqrtFrom(_, _)
ISqrtFrom(n, r) == IF (r + 1) * (r + 1) > n THEN r ELSE ISqrtFrom(n, r + 1)

\* the integer square root
ISqrt(n) == ISqrtFrom(n, 0)

\* np.linalg.norm of each raw vector, in fixed point
NormTable == [v \in RawVectors |-> ISqrt(Dot(v, v) * Scale * Scale)]

NormOfRaw(v) == NormTable[v]

\* raw vector v divided by the fixed-point norm n
DivideByNorm(v, n) == [i \in 1..Len(v) |-> RoundDiv(v[i] * Scale * Scale, n)]

\* np.dot of two fixed-point vectors
DotFixed(a, b) == RoundDiv(Dot(a, b), Scale)

\* an index that grows: the loaded entries are added after what it held
LoadEmbeddingsAppending(films_with_embeddings) ==
    [film_ids |-> film_ids \o [i \in 1..Len(films_with_embeddings) |->
                                 films_with_embeddings[i][1]],
     film_embeddings |->
        [is_none |-> FALSE,
         rows |-> (IF film_embeddings.is_none THEN <<>> ELSE film_embeddings.rows)
                     \o [i \in 1..Len(films_with_embeddings) |->
                           LET vector == films_with_embeddings[i][2]
                               norm == NormOfRaw(vector)
                           IN DivideByNorm(vector, IF norm = 0 THEN Scale ELSE norm)]]]

(***************************************************************************)
(* SimilarityService (app/services/similarity_service.py)                  *)
(***************************************************************************)
\* load_embeddings: the new film_ids and film_embeddings
LoadEmbeddingsKeepingIndex(films_with_embeddings) ==
    [film_ids |-> film_ids, film_embeddings |-> film_embeddings]

LoadEmbeddings(films_with_embeddings) ==
    IF films_with_embeddings = <<>>
    THEN [film_ids |-> <<>>, film_embeddings |-> [is_none |-> FALSE, rows |-> <<>>]]
    ELSE [film_ids |-> [i \in 1..Len(films_with_embeddings) |->
                          films_with_embeddings[i][1]],
          film_embeddings |->
             [is_none |-> FALSE,
              rows |-> [i \in 1..Len(films_with_embeddings) |->
                          LET vector == films_with_embeddings[i][2]
                              norm == NormOfRaw(vector)
                          IN DivideByNorm(vector, IF norm = 0 THEN Scale ELSE norm)]]]

Permutations_(n) ==
    {p \in [1..n -> 1..n] : \A i, j \in 1..n : i # j => p[i] # p[j]}

\* np.argsort(a): an order of the indices in which a does not decrease; the
\* order of equal elements is the sort implementation's
ArgSorts(a) ==
    {p \in Permutations_(Len(a)) :
        \A i \in 1..(Len(a) - 1) : a[p[i]] <= a[p[i + 1]]}

\* np.argpartition(a, kth) for a Python index kth (negative: from the end):
\* an order with the kth smallest element in place, no larger one before it
\* and no smaller one after it
ArgPartitions(a, kth) ==
    LET n == Len(a)
        k == (IF kth < 0 THEN n + kth ELSE kth) + 1
    IN {p \in Permutations_(n) :
          /\ \A i \in 1..(k - 1) : a[p[i]] <= a[p[k]]
          /\ \A i \in (k + 1)..n : a[p[i]] >= a[p[k]]}

\* s[-k:] for k >= 0; s[-0:] is s[0:], the whole list
LastK(s, k) == IF k = 0 THEN s ELSE SubSeq(s, Len(s) - Min(k, Len(s)) + 1, Len(s))

\* s[::-1]
Reversed(s) == [i \in 1..Len(s) |-> s[Len(s) + 1 - i]]

\* the truth value of an optional list: None and [] are both false
Truthy(optional_list) == ~optional_list.is_none /\ optional_list.ids # <<>>

\* the candidate pool of find_similar after the film_id_filter mask
FilteredPool(ids, rows, film_id_filter) ==
    IF Truthy(film_id_filter)
    THEN LET filter_set == Range(film_id_filter.ids)
             kept == SelectSeq([i \in 1..Len(ids) |-> i],
                               LAMBDA i : ids[i] \in filter_set)
         IN [ids |-> [i \in 1..Len(kept) |-> ids[kept[i]]],
             rows |-> [i \in 1..Len(kept) |-> rows[kept[i]]]]
    ELSE [ids |-> ids, rows |-> rows]

\* the index orders find_similar may end with
TopIndices(similarities, top_k) ==
    IF Len(similarities) <= top_k
    THEN {Reversed(p) : p \in ArgSorts(similarities)}
    ELSE UNION {
           LET top_indices == LastK(part, top_k)
               picked == [i \in 1..Len(top_indices) |-> similarities[top_indices[i]]]
           IN {[i \in 1..Len(top_indices) |-> top_indices[Reversed(q)[i]]] :
                  q \in ArgSorts(picked)}
           : part \in ArgPartitions(similarities, 0 - top_k)}

\* find_similar: the result lists the call may return
FindSimilar(ids, embeddings, user_embedding, top_k, film_id_filter) ==
    IF embeddings.is_none \/ Len(ids) = 0 THEN {<<>>}
    ELSE LET user_norm == NormOfRaw(user_embedding)
         IN IF user_norm = 0 THEN {<<>>}
            ELSE LET user_normalized == DivideByNorm(user_embedding, user_norm)
                     pool == FilteredPool(ids, embeddings.rows, film_id_filter)
                 IN IF Len(pool.ids) = 0 THEN {<<>>}
                    ELSE LET similarities ==
                                [i \in 1..Len(pool.ids) |->
                                    DotFixed(pool.rows[i], user_normalized)]
                         IN {[i \in 1..Len(top) |->
                                [film_id |-> pool.ids[top[i]],
                                 score |-> Max(0, Min(Scale, similarities[top[i]]))]]
                             : top \in TopIndices(similarities, top_k)}

(***************************************************************************)
(* SpecSim: load_embeddings and find_similar on the process-wide service.  *)
(* A behaviour is any number of loads followed by one find_similar:        *)
(* find_similar leaves the service as it found it, so a call made after it *)
(* sees a state that a call made in its place sees as well.                *)
(***************************************************************************)
\* most entries of a loaded pool
MaxPool == 2

\* largest top_k asked for
MaxTopK == 2

\* the film ids pools and filters are made of
SimFilmIds == {1, 2, 3}

\* (film_id, vector) lists as the catalog join yields them: one per film
Pools ==
    {e \in SeqsUpTo(SimFilmIds \X RawVectors, MaxPool) :
        \A i, j \in 1..Len(e) : i # j => e[i][1] # e[j][1]}

\* an ascending list of the ids in S
RECURSIVE AscendingList(_)
AscendingList(S) ==
    IF S = {} THEN <<>>
    ELSE LET x == CHOOSE y \in S : \A z \in S : y <= z
         IN <<x>> \o AscendingList(S \ {x})

\* film_id_filter arguments: None, or a list of ids (the empty list included)
Filters ==
    {[is_none |-> TRUE, ids |-> <<>>]} \cup
    {[is_none |-> FALSE, ids |-> AscendingList(S)] : S \in SUBSET SimFilmIds}

SimInit ==
    /\ FreshProcess
    /\ settings = DefaultSettings
    /\ films = {}
    /\ call = NoCall

SimLoad ==
    /\ call.op # "find_similar"
    /\ \E entries \in Pools :
       LET loaded == LoadEmbeddings(entries)
       IN /\ film_ids' = loaded.film_ids
          /\ film_embeddings' = loaded.film_embeddings
          /\ call' = [op |-> "load_embeddings", entries |-> entries,
                      before |-> film_ids]
          /\ UNCHANGED <<now, llm_cache, requests, initialized, settings, films,
                         prev, lastSet, tasks, admitted>>

SimFind ==
    /\ call.op # "find_similar"
    /\ \E v \in RawVectors, top_k \in 0..MaxTopK, filter \in Filters :
       \E result \in FindSimilar(film_ids, film_embeddings, v, top_k, filter) :
          /\ call' = [op |-> "find_similar", user_embedding |-> v,
                      top_k |-> top_k, film_id_filter |-> filter,
                      result |-> result]
          /\ prev' = call
          /\ UNCHANGED <<now, llm_cache, film_ids, film_embeddings, requests,
                         initialized, settings, films, lastSet, tasks, admitted>>

SimNext == SimLoad \/ SimFind

SpecSim == SimInit /\ [][SimNext]_vars

NonIncreasingScores(result) ==
    \A i \in 1..(Len(result) - 1) : result[i].score >= result[i + 1].score

\* C9 (as claimed): on a non-empty loaded pool, for a non-zero query vector,
\* any top_k >= 0 and no id filter, find_similar returns at most top_k
\* results, in non-increasing order of score, every score in [0, 1].
C9_AtMostTopKSortedBounded ==
    (/\ call.op = "find_similar"
     /\ Len(film_ids) > 0
     /\ call.user_embedding # ZeroVector
     /\ call.film_id_filter.is_none)
        => (/\ Len(call.result) <= call.top_k
            /\ NonIncreasingScores(call.result)
            /\ \A i \in 1..Len(call.result) :
                   call.result[i].score >= 0 /\ call.result[i].score <= Scale)

\* C10 (as claimed): whatever list of ids is passed as film_id_filter, no
\* result of find_similar carries a film_id outside that list.
C10_ResultsWithinAllowedIds ==
    (call.op = "find_similar" /\ ~call.film_id_filter.is_none)
        => \A i \in 1..Len(call.result) :
              call.result[i].film_id \in Range(call.film_id_filter.ids)

\* the ids of (film_id, vector) entries, in their order
EntryIds(entries) == [k \in 1..Len(entries) |-> entries[k][1]]

\* C27: after load_embeddings(E) the index holds the ids of E in the order
\* of E, one row each, and nothing else (nothing at all for an empty E),
\* whatever it held before; a find_similar made after it returns ids of E
\* only.
C27_LoadReplacesIndex ==
    /\ call.op = "load_embeddings" =>
          /\ film_ids = EntryIds(call.entries)
          /\ ~film_embeddings.is_none
          /\ Len(film_embeddings.rows) = Len(call.entries)
    /\ (call.op = "find_similar" /\ prev.op = "load_embeddings") =>
          /\ film_ids = EntryIds(prev.entries)
          /\ \A i \in 1..Len(call.result) :
                call.result[i].film_id \in Range(EntryIds(prev.entries))

\* a find_similar that returned a film of the last load, which had replaced
\* an index holding another film, asked for as well and not returned
C27_Witness ==
    /\ call.op = "find_similar" /\ prev.op = "load_embeddings"
    /\ call.result # <<>>
    /\ \E old \in Range(prev.before) :
          /\ old \notin Range(EntryIds(prev.entries))
          /\ ~call.film_id_filter.is_none
          /\ old \in Range(call.film_id_filter.ids)

\* the loaded films a filter allows; all of them without a filter
AllowedPool(ids, film_id_filter) ==
    IF film_id_filter.is_none THEN Range(ids)
    ELSE Range(ids) \cap Range(film_id_filter.ids)

\* C28 (as claimed): find_similar returns the empty list when the index
\* was never loaded or is empty, when the query vector is the zero vector,
\* and when no loaded film is among the allowed ids.
C28_EmptyCasesReturnEmpty ==
    (/\ call.op = "find_similar"
     /\ \/ film_embeddings.is_none
        \/ film_ids = <<>>
        \/ NormOfRaw(call.user_embedding) = 0
        \/ AllowedPool(film_ids, call.film_id_filter) = {})
       => call.result = <<>>

\* the place of a film in the loaded pool
PoolPlace(film_id) == CHOOSE k \in 1..Len(film_ids) : film_ids[k] = film_id

\* the similarity find_similar computes for a film of the loaded pool
SimilarityOf(film_id, user_embedding) ==
    DotFixed(film_embeddings.rows[PoolPlace(film_id)],
             DivideByNorm(user_embedding, NormOfRaw(user_embedding)))

\* C26 (as claimed): two films of equal similarity appear in the result in
\* the order of the pool.
C26_TiesInPoolOrder ==
    call.op = "find_similar" =>
       \A i, j \in 1..Len(call.result) :
          (/\ i < j
           /\ SimilarityOf(call.result[i].film_id, call.user_embedding)
                 = SimilarityOf(call.result[j].film_id, call.user_embedding))
             => PoolPlace(call.result[i].film_id) < PoolPlace(call.result[j].film_id)

(***************************************************************************)
(* The catalog: rows of table films joined with their embedding.  Titles   *)
(* are <<"film", id>>.  Film 9 has no overview (the column is nullable).   *)
(***************************************************************************)
NullOverviewIds == {9}

FilmRow(i) ==
    [id |-> i,
     title |-> <<"film", i>>,
     overview |-> IF i \in NullOverviewIds THEN None ELSE "synopsis",
     runtime |-> CASE i = 1 -> 80 [] i = 3 -> 130 [] OTHER -> 100,
     genres |-> CASE i = 1 -> <<"Comedie">>
                  [] i = 3 -> <<"Comedie", "Drame">>
                  [] OTHER -> <<"Drame">>,
     watch_providers |-> CASE i = 2 -> <<"Prime">>
                           [] i = 3 -> <<"Netflix", "Prime">>
                           [] OTHER -> <<"Netflix">>,
     vector |-> CASE i = 1 -> <<1, 0>>
                  [] i = 3 -> <<-1, 0>>
                  [] i = 4 -> <<0, 0>>
                  [] OTHER -> <<1, 1>>]

\* the dict get_recommendations hands to the ranker for a film
CandidateOf(f) ==
    [id |-> f.id, title |-> f.title, genres |-> f.genres, overview |-> f.overview]

(***************************************************************************)
(* RateLimiter (app/services/llm_service.py), one caller at a time: the    *)
(* sleep ends exactly when it is due.                                      *)
(***************************************************************************)
Window == 60

\* settings.gemini_requests_per_minute of the modelled deployment
RateLimit == 1

\* acquire at time t: the recorded calls and the clock when it returns
Acquire(recorded, t, max_requests) ==
    LET kept == SelectSeq(recorded, LAMBDA x : t - x < Window)
    IN IF Len(kept) >= max_requests
       THEN LET sleep_time == Window - (t - kept[1])
                woke == IF sleep_time > 0 THEN t + sleep_time ELSE t
            IN [requests |-> <<woke>>, now |-> woke, slept |-> Max(sleep_time, 0)]
       ELSE [requests |-> Append(kept, t), now |-> t, slept |-> 0]

(***************************************************************************)
(* What the external model answers: an exception, or a text.  A text is a  *)
(* body, bare or wrapped; a body is JSON or not; a JSON body is a document *)
(* whose members may be missing.  film_id values are typed: an int, or a   *)
(* list (not hashable).                                                    *)
(***************************************************************************)
IntId(n) == [type |-> "int", v |-> n]

ListId == [type |-> "list", v |-> 0]

LlmTitle == <<"llm", 0>>

\* well-formed documents: primary from primary_ids, up to max_len secondaries
\* with ids from secondary_ids
WellFormedDocs(primary_ids, secondary_ids, max_len) ==
    {[primary |-> [film_id |-> pid, title |-> LlmTitle, reasoning |-> reasoning],
      secondary |-> [i \in 1..Len(ids) |->
                       [film_id |-> ids[i], title |-> LlmTitle, tagline |-> tagline]]]
     : pid \in primary_ids,
       reasoning \in {None, "llm-reasoning"},
       tagline \in {None, "llm-tagline"},
       ids \in SeqsUpTo(secondary_ids, max_len)}

\* documents that are JSON but not of the schema, and two that still are
\* (no "secondary", no "reasoning")
OddDocs ==
    {[secondary |-> <<>>],
     [primary |-> [title |-> LlmTitle], secondary |-> <<>>],
     [primary |-> [film_id |-> IntId(1)], secondary |-> <<>>],
     [primary |-> [film_id |-> IntId(1), title |-> LlmTitle, reasoning |-> None],
      secondary |-> <<[film_id |-> IntId(1)]>>],
     [primary |-> [film_id |-> IntId(1), title |-> LlmTitle, reasoning |-> None],
      secondary |-> <<[title |-> LlmTitle, tagline |-> "llm-tagline"]>>],
     [primary |-> [film_id |-> IntId(1), title |-> LlmTitle, reasoning |-> None]],
     [primary |-> [film_id |-> IntId(1), title |-> LlmTitle], secondary |-> <<>>]}

Wraps == {"plain", "fence_json", "prose_then_fence"}

LlmReplies(docs) ==
    {[kind |-> "exception"]} \cup
    {[kind |-> "text", wrap |-> "plain", body |-> [is_json |-> FALSE]]} \cup
    {[kind |-> "text", wrap |-> w, body |-> [is_json |-> TRUE, doc |-> d]]
        : w \in Wraps, d \in docs}

(***************************************************************************)
(* LLMService (app/services/llm_service.py)                                *)
(***************************************************************************)
PromptLimit == 20

SecondaryLimit == 4

\* MOCK_REASONING_TEMPLATES: per mood key, its two templates
MOCK_REASONING_TEMPLATES ==
    [joyeux      |-> <<"Tu rayonnes de bonne humeur", "Avec ton etat d'esprit radieux">>,
     triste      |-> <<"Parfois, un bon film aide", "Ce film a cette capacite rare">>,
     stresse     |-> <<"Tu as besoin de decompresser", "Rien de tel qu'un bon">>,
     curieux     |-> <<"Ton esprit curieux va adorer", "Ce genre intelligent">>,
     romantique  |-> <<"L'amour est dans l'air", "Parfait pour ton humeur romantique">>,
     aventurier  |-> <<"Tu veux de l'action", "Ton esprit aventurier">>,
     nostalgique |-> <<"Ce genre a cette magie", "Parfait pour ton humeur nostalgique">>,
     default     |-> <<"Ce genre correspond parfaitement", "Un excellent choix">>]

\* MOCK_REASONING_TEMPLATES.keys(), in insertion order
TemplateKeys == <<"joyeux", "triste", "stresse", "curieux", "romantique",
                  "aventurier", "nostalgique", "default">>

MOCK_TAGLINES == <<"Une pepite qui va te surprendre", "Un classique incontournable",
                   "Pour les amateurs de sensations fortes",
                   "Un voyage emotionnel garanti", "Du pur divertissement",
                   "Une histoire qui reste en tete", "A voir absolument ce soir",
                   "Le choix parfait pour ton mood">>

FALLBACK_REASONING == "Ce film correspond a ton humeur actuelle et tes preferences."

GENERIC_TAGLINE == "Une alternative qui pourrait te plaire."

\* the template keys a mood text of the model contains once lower-cased
\* (the strings of the model are written without accents)
KeysIn(mood) == IF mood = "stresse, besoin de rire" THEN {"stresse"} ELSE {}

\* the first template key contained in the mood, else "default"
MoodKey(mood) ==
    LET hits == SelectSeq(TemplateKeys, LAMBDA k : k \in KeysIn(mood))
    IN IF hits = <<>> THEN "default" ELSE hits[1]

NoResponse == [is_none |-> TRUE]

Raised(error, path) == [raised |-> error, path |-> path, response |-> NoResponse]

Returned(response, path) == [raised |-> None, path |-> path, response |-> response]

\* _build_prompt: None[:200] raises for a candidate without overview
BuildPromptRaises(candidate_films) ==
    \E i \in 1..Len(Take(candidate_films, PromptLimit)) :
       candidate_films[i].overview = None

\* a fallback that keeps every candidate after the first as a secondary
FallbackResponseUncut(candidate_films) ==
    IF candidate_films = <<>> THEN Raised("ValueError", "fallback")
    ELSE Returned([primary |-> [film_id |-> IntId(candidate_films[1].id),
                                title |-> candidate_films[1].title,
                                reasoning |-> FALLBACK_REASONING,
                                tagline |-> None],
                   secondary |-> [i \in 1..(Len(candidate_films) - 1) |->
                                    [film_id |-> IntId(candidate_films[i + 1].id),
                                     title |-> candidate_films[i + 1].title,
                                     reasoning |-> None,
                                     tagline |-> GENERIC_TAGLINE]],
                   raw_response |-> "fallback"], "fallback")

\* _fallback_response
FallbackResponse(candidate_films) ==
    IF candidate_films = <<>> THEN Raised("ValueError", "fallback")
    ELSE LET primary == candidate_films[1]
             secondary == Slice(candidate_films, 1, 5)
         IN Returned([primary |-> [film_id |-> IntId(primary.id),
                                   title |-> primary.title,
                                   reasoning |-> FALLBACK_REASONING,
                                   tagline |-> None],
                      secondary |-> [i \in 1..Len(secondary) |->
                                       [film_id |-> IntId(secondary[i].id),
                                        title |-> secondary[i].title,
                                        reasoning |-> None,
                                        tagline |-> GENERIC_TAGLINE]],
                      raw_response |-> "fallback"], "fallback")

\* the draws of random.choice in _mock_response: a template, and for each
\* secondary a tagline not used before (there are more taglines than
\* secondaries)
MockDrawsRepeating(candidate_films) ==
    LET n == Len(Slice(candidate_films, 1, 5))
    IN {[template |-> i, taglines |-> t] :
          i \in 1..2, t \in [1..n -> 1..Len(MOCK_TAGLINES)]}

MockDraws(candidate_films) ==
    LET n == Len(Slice(candidate_films, 1, 5))
    IN {[template |-> i, taglines |-> t] :
          i \in 1..2,
          t \in {u \in [1..n -> 1..Len(MOCK_TAGLINES)] :
                   \A a, b \in 1..n : a # b => u[a] # u[b]}}

\* _mock_response
MockResponse(mood, candidate_films, draw) ==
    IF candidate_films = <<>> THEN Raised("ValueError", "mock")
    ELSE LET primary == candidate_films[1]
             secondary == Slice(candidate_films, 1, 5)
         IN Returned([primary |-> [film_id |-> IntId(primary.id),
                                   title |-> primary.title,
                                   reasoning |->
                                      MOCK_REASONING_TEMPLATES[MoodKey(mood)][draw.template],
                                   tagline |-> None],
                      secondary |-> [i \in 1..Len(secondary) |->
                                       [film_id |-> IntId(secondary[i].id),
                                        title |-> secondary[i].title,
                                        reasoning |-> None,
                                        tagline |-> MOCK_TAGLINES[draw.taglines[i]]]],
                      raw_response |-> "mock_mode"], "mock")

\* the text handed to json.loads once a leading code fence is stripped
StripFence(text) ==
    IF text.wrap = "prose_then_fence" THEN [is_json |-> FALSE] ELSE text.body

HasKeys(d, keys) == keys \subseteq DOMAIN d

\* d.get(key)
GetOrNone(d, key) == IF key \in DOMAIN d THEN d[key] ELSE None

\* lines 234-256: the parsed result, or the exception the parsing raises
ParseReply(text) ==
    LET cleaned == StripFence(text)
    IN IF ~cleaned.is_json THEN [raised |-> "JSONDecodeError"]
       ELSE LET data == cleaned.doc
                items == Take(IF "secondary" \in DOMAIN data THEN data.secondary
                              ELSE <<>>, SecondaryLimit)
            IN IF ~HasKeys(data, {"primary"}) THEN [raised |-> "KeyError"]
               ELSE IF ~HasKeys(data.primary, {"film_id", "title"})
               THEN [raised |-> "KeyError"]
               ELSE IF \E i \in 1..Len(items) : ~HasKeys(items[i], {"film_id", "title"})
               THEN [raised |-> "KeyError"]
               ELSE [raised |-> None,
                     response |->
                        [primary |-> [film_id |-> data.primary.film_id,
                                      title |-> data.primary.title,
                                      reasoning |-> GetOrNone(data.primary, "reasoning"),
                                      tagline |-> None],
                         secondary |-> [i \in 1..Len(items) |->
                                          [film_id |-> items[i].film_id,
                                           title |-> items[i].title,
                                           reasoning |-> None,
                                           tagline |-> GetOrNone(items[i], "tagline")]],
                         raw_response |-> "llm"]]

\* the toggle alone
UsesMockByToggle(s) == s.llm_mock_mode

\* settings.llm_mock_mode or not settings.gemini_api_key
UsesMock(s) == s.llm_mock_mode \/ s.gemini_api_key = ""

\* generate, live: after _initialize and acquire, given the model's reply
GenerateLive(candidate_films, reply) ==
    IF BuildPromptRaises(candidate_films) THEN Raised("TypeError", "prompt")
    ELSE IF reply.kind = "exception" THEN FallbackResponse(candidate_films)
    ELSE LET parsed == ParseReply(reply)
         IN IF parsed.raised # None THEN FallbackResponse(candidate_films)
            ELSE Returned(parsed.response, "parsed")

\* LLMService._initialize: what it raises, and whether a model is configured
\* afterwards
Initialize(s, was_initialized) ==
    IF was_initialized THEN [raised |-> None, initialized |-> TRUE]
    ELSE IF s.gemini_api_key = "" THEN [raised |-> "ValueError", initialized |-> FALSE]
    ELSE [raised |-> None, initialized |-> TRUE]

NotCalled == [kind |-> "not_called"]

NoDraw == [template |-> 0, taglines |-> <<>>]

\* LLMService.generate: every outcome one call can have, over the draws of
\* the mock and the replies the external model may give, with the limiter,
\* the clock and the configured flag as the call leaves them
Generate(s, was_initialized, recorded, t, mood, candidate_films, replies) ==
    IF UsesMock(s)
    THEN {[out |-> MockResponse(mood, candidate_films, draw), reply |-> NotCalled,
           draw |-> draw,
           initialized |-> was_initialized, requests |-> recorded, now |-> t]
          : draw \in IF candidate_films = <<>> THEN {NoDraw}
                     ELSE MockDraws(candidate_films)}
    ELSE LET init == Initialize(s, was_initialized)
             acquired == Acquire(recorded, t, RateLimit)
         IN IF init.raised # None
            THEN {[out |-> Raised(init.raised, "initialize"), reply |-> NotCalled,
                   draw |-> NoDraw,
                   initialized |-> init.initialized, requests |-> recorded, now |-> t]}
            ELSE IF BuildPromptRaises(candidate_films)
            THEN {[out |-> GenerateLive(candidate_films, NotCalled), reply |-> NotCalled,
                   draw |-> NoDraw,
                   initialized |-> init.initialized, requests |-> acquired.requests,
                   now |-> acquired.now]}
            ELSE {[out |-> GenerateLive(candidate_films, reply), reply |-> reply,
                   draw |-> NoDraw,
                   initialized |-> init.initialized, requests |-> acquired.requests,
                   now |-> acquired.now]
                  : reply \in replies}

(***************************************************************************)
(* SpecLLM: one call of LLMService.generate in a fresh process, under each *)
(* configuration.                                                          *)
(***************************************************************************)
\* most candidates handed to generate, not counting the one without overview
MaxCands == 6

\* most secondary entries in a reply of the external model
MaxReplySecondary == 5

SettingsChoices == [llm_mock_mode : BOOLEAN, gemini_api_key : {"", "key"}]

\* the first films by id, then possibly the film without overview
CandidateLists ==
    {[i \in 1..n |-> CandidateOf(FilmRow(i))] \o tail
       : n \in 0..MaxCands,
         tail \in {<<>>} \cup {<<CandidateOf(FilmRow(i))>> : i \in NullOverviewIds}}

LLMMoods == {"stresse, besoin de rire", "calme"}

LLMReplies ==
    LlmReplies(WellFormedDocs({IntId(1), IntId(99), ListId}, {IntId(1), IntId(99)},
                              MaxReplySecondary) \cup OddDocs)

LLMInit ==
    /\ FreshProcess
    /\ settings \in SettingsChoices
    /\ films = {}
    /\ call = NoCall

LLMGenerate ==
    /\ call.op = "none"
    /\ \E mood \in LLMMoods, candidate_films \in CandidateLists :
          \E g \in Generate(settings, initialized, requests, now, mood,
                             candidate_films, LLMReplies) :
             /\ ClockOk(g.now)
             /\ initialized' = g.initialized
             /\ requests' = g.requests
             /\ now' = g.now
             /\ prev' = call
             /\ call' = [op |-> "generate", mood |-> mood,
                         candidate_films |-> candidate_films,
                         mock |-> UsesMock(settings),
                         reply |-> g.reply, draw |-> g.draw,
                         raised |-> g.out.raised, path |-> g.out.path,
                         response |-> g.out.response]
    /\ UNCHANGED <<llm_cache, film_ids, film_embeddings, settings, films, lastSet, tasks, admitted>>

LLMNext == LLMGenerate

SpecLLM == LLMInit /\ [][LLMNext]_vars

CandidateIds(candidate_films) ==
    {IntId(candidate_films[i].id) : i \in 1..Len(candidate_films)}

\* C4: generate called with no candidate raises and returns no response,
\* whichever strategy serves the call.
C4_EmptyCandidatesRaise ==
    (call.op = "generate" /\ call.candidate_films = <<>>)
        => (call.raised = "ValueError" /\ call.response = NoResponse)

\* C5: a response generate returns for a non-empty candidate list has at most
\* four secondary entries, and its primary id and secondary ids are ids of
\* candidates passed in.
C5_IdsFromCandidates ==
    (call.op = "generate" /\ call.candidate_films # <<>> /\ call.raised = None)
        => LET r == call.response
           IN /\ Len(r.secondary) <= SecondaryLimit
              /\ r.primary.film_id \in CandidateIds(call.candidate_films)
              /\ \A i \in 1..Len(r.secondary) :
                    r.secondary[i].film_id \in CandidateIds(call.candidate_films)

\* C33 (as claimed): a call of generate in live mode calls the external
\* model, once, after the limiter admitted the call, and ends parsed or in
\* the fallback.
C33_LiveCallReachesModel ==
    (call.op = "generate" /\ ~call.mock) =>
       /\ requests # <<>>
       /\ call.reply # NotCalled
       /\ call.path \in {"parsed", "fallback"}

\* C36: without an API key generate takes the mock path, the toggle on or
\* off: the external model is not called, the limiter and the model set-up
\* are left alone, and _initialize does not raise for the missing key.
C36_NoKeyNoModel ==
    (call.op = "generate" /\ settings.gemini_api_key = "") =>
       /\ call.path = "mock"
       /\ call.reply = NotCalled
       /\ requests = <<>>
       /\ ~initialized

\* a call without key, the toggle off, returned a mock result
C36_Witness ==
    /\ call.op = "generate"
    /\ settings.gemini_api_key = "" /\ ~settings.llm_mock_mode
    /\ call.raised = None
    /\ call.response.raw_response = "mock_mode"

\* C32: with mock mode switched on, generate does not call the external
\* model and leaves the limiter's recorded calls as they were; given one
\* candidate or more it returns the first as primary and the next up to four
\* as secondaries, in their order, no two with the same tagline.
C32_MockBypassesModel ==
    [][(call'.op = "generate" /\ call.op = "none" /\ settings.llm_mock_mode) =>
          /\ call'.reply = NotCalled
          /\ requests' = requests
          /\ call'.candidate_films # <<>> =>
                LET c == call'.candidate_films
                    r == call'.response
                IN /\ call'.raised = None
                   /\ r.primary.film_id = IntId(c[1].id)
                   /\ Len(r.secondary) = Min(SecondaryLimit, Len(c) - 1)
                   /\ \A i \in 1..Len(r.secondary) :
                         r.secondary[i].film_id = IntId(c[i + 1].id)
                   /\ \A i, j \in 1..Len(r.secondary) :
                         i # j => r.secondary[i].tagline # r.secondary[j].tagline]_vars

\* mock mode switched on although a key is configured: a call with more than
\* five candidates returned four secondaries
C32_Witness ==
    /\ call.op = "generate"
    /\ settings.llm_mock_mode /\ settings.gemini_api_key # ""
    /\ Len(call.candidate_films) > 5
    /\ call.raised = None
    /\ Len(call.response.secondary) = 4

(***************************************************************************)
(* EmbeddingService.encode (app/services/embedding_service.py): the raw    *)
(* vector of a text; the sentence model is a fixed table of directions.    *)
(***************************************************************************)
IsBlank(text) == text \in {"", " "}

Encode(text) ==
    IF IsBlank(text) THEN ZeroVector
    ELSE IF text = "stresse, besoin de rire" THEN <<1, 0>>
    ELSE <<1, 1>>

(***************************************************************************)
(* FilmService (app/services/film_service.py) over the catalog: the set of *)
(* ids of the films stored, each with its embedding.  Rows come back in id *)
(* order.  The labels of the model are ASCII and none is part of another,  *)
(* so that contains() on the JSON column is membership in the list.        *)
(***************************************************************************)
NoList == [is_none |-> TRUE, ids |-> <<>>]

OptList(l) == [is_none |-> FALSE, ids |-> l]

ContainsLabel(json_list, label) == label \in Range(json_list)

DurationCondition(f, duration) ==
    IF duration = None \/ duration = "" \/ duration = "any" THEN TRUE
    ELSE IF duration = "<90" THEN f.runtime < 90
    ELSE IF duration = "90-120" THEN f.runtime >= 90 /\ f.runtime <= 120
    ELSE IF duration = ">120" THEN f.runtime > 120
    ELSE TRUE

PlatformCondition(f, platforms) ==
    IF ~Truthy(platforms) THEN TRUE
    ELSE LET named == SelectSeq(platforms.ids, LAMBDA x : x # "other")
         IN named = <<>> \/
            \E i \in 1..Len(named) : ContainsLabel(f.watch_providers, named[i])

GenreCondition(f, genres) ==
    IF ~Truthy(genres) \/ "surprise" \in Range(genres.ids) THEN TRUE
    ELSE \E i \in 1..Len(genres.ids) : ContainsLabel(f.genres, genres.ids[i])

\* get_films_with_embeddings: the rows (each carries its vector)
GetFilmsWithEmbeddings(catalog, duration, platforms, genres) ==
    LET matching == {i \in catalog :
                        /\ DurationCondition(FilmRow(i), duration)
                        /\ PlatformCondition(FilmRow(i), platforms)
                        /\ GenreCondition(FilmRow(i), genres)}
        ordered == AscendingList(matching)
    IN [i \in 1..Len(ordered) |-> FilmRow(ordered[i])]

\* get_films_by_ids: the rows of the ids found, in the order asked
GetFilmsByIds(catalog, wanted) ==
    LET found == SelectSeq(wanted, LAMBDA x : x \in catalog)
    IN [i \in 1..Len(found) |-> FilmRow(found[i])]

(***************************************************************************)
(* json.dumps / json.loads of the cached response.  A JSON value is a      *)
(* token with its type: Python None is written as null, and read back.     *)
(***************************************************************************)
JsonOptional(x) == IF x = None THEN [t |-> JsonNull] ELSE [t |-> "string", v |-> x]

JsonValue(kind, x) == [t |-> kind, v |-> x]

FromJsonOptionalKeepNull(j) == IF j.t = JsonNull THEN JsonNull ELSE j.v

FromJsonOptional(j) == IF j.t = JsonNull THEN None ELSE j.v

\* json.dumps(asdict(film_data))
JsonDumpsFilmData(d) ==
    [id |-> JsonValue("number", d.id),
     title |-> JsonValue("string", d.title),
     overview |-> JsonOptional(d.overview),
     runtime |-> JsonValue("number", d.runtime),
     genres |-> JsonValue("array", d.genres),
     platforms |-> JsonValue("array", d.platforms),
     reasoning |-> JsonOptional(d.reasoning),
     tagline |-> JsonOptional(d.tagline),
     similarity_score |-> JsonValue("number", d.similarity_score)]

\* FilmData(**json.loads(text))
JsonLoadsFilmData(j) ==
    [id |-> j.id.v,
     title |-> j.title.v,
     overview |-> FromJsonOptional(j.overview),
     runtime |-> j.runtime.v,
     genres |-> j.genres.v,
     platforms |-> j.platforms.v,
     reasoning |-> FromJsonOptional(j.reasoning),
     tagline |-> FromJsonOptional(j.tagline),
     similarity_score |-> j.similarity_score.v]

JsonDumpsCacheData(response) ==
    [primary |-> JsonDumpsFilmData(response.primary),
     secondary |-> [i \in 1..Len(response.secondary) |->
                      JsonDumpsFilmData(response.secondary[i])]]

JsonLoadsCacheData(text) ==
    [primary |-> JsonLoadsFilmData(text.primary),
     secondary |-> [i \in 1..Len(text.secondary) |->
                      JsonLoadsFilmData(text.secondary[i])]]

(***************************************************************************)
(* RecommendationService (app/services/recommendation_service.py)          *)
(***************************************************************************)
TopK == 20

SecondaryCount == 4

\* _build_film_data
BuildFilmData(film, reasoning, tagline, similarity_score) ==
    [id |-> film.id,
     title |-> film.title,
     overview |-> film.overview,
     runtime |-> film.runtime,
     genres |-> film.genres,
     platforms |-> film.watch_providers,
     reasoning |-> reasoning,
     tagline |-> tagline,
     similarity_score |-> similarity_score]

\* the score of the closest film, whichever film is asked for
ScoreOfClosest(similar_results, film_id) == similar_results[1].score

\* score_map.get(film_id), for a film of the similarity results
ScoreOf(similar_results, film_id) ==
    (CHOOSE r \in Range(similar_results) : r.film_id = film_id).score

\* film_map.get(film_id): the films found (none or one); a list is not
\* hashable
FilmMapGetNothing(candidate_films, film_id) == [raised |-> None, found |-> <<>>]

FilmMapGet(candidate_films, film_id) ==
    IF film_id.type = "list" THEN [raised |-> "TypeError", found |-> <<>>]
    ELSE [raised |-> None,
          found |-> SelectSeq(candidate_films,
                              LAMBDA f : film_id.type = "int" /\ f.id = film_id.v)]

NoResult == [is_none |-> TRUE]

FillNothing(candidate_films, used_ids, resolved_count) == <<>>

\* "Fill secondary if needed": the films appended after resolved_count
\* secondaries resolved, the candidates not used so far, in their order,
\* until there are SecondaryCount
FillSecondary(candidate_films, used_ids, resolved_count) ==
    IF resolved_count < SecondaryCount
    THEN Take(SelectSeq(candidate_films, LAMBDA f : f.id \notin used_ids),
              SecondaryCount - resolved_count)
    ELSE <<>>

\* step 8 of get_recommendations: the response built, or the exception raised
BuildResponse(candidate_films, similar_results, llm_response) ==
    LET primary_get == FilmMapGet(candidate_films, llm_response.primary.film_id)
        primary_films == IF primary_get.found = <<>> THEN Take(candidate_films, 1)
                         ELSE primary_get.found
        recs == llm_response.secondary
        gets == [i \in 1..Len(recs) |-> FilmMapGet(candidate_films, recs[i].film_id)]
    IN IF primary_get.raised # None THEN [raised |-> primary_get.raised, response |-> NoResult]
       ELSE IF primary_films = <<>> THEN [raised |-> "AttributeError", response |-> NoResult]
       ELSE IF \E i \in 1..Len(recs) : gets[i].raised # None
       THEN [raised |-> "TypeError", response |-> NoResult]
       ELSE
         LET primary_film == primary_films[1]
             primary_data == BuildFilmData(primary_film, llm_response.primary.reasoning,
                                           None,
                                           ScoreOf(similar_results, primary_film.id))
             resolved == SelectSeq([i \in 1..Len(recs) |-> i],
                                   LAMBDA i : gets[i].found # <<>>)
             named == [k \in 1..Len(resolved) |->
                         LET film == gets[resolved[k]].found[1]
                         IN BuildFilmData(film, None, recs[resolved[k]].tagline,
                                          ScoreOf(similar_results, film.id))]
             used_ids == {primary_data.id} \cup {named[k].id : k \in 1..Len(named)}
             fill == FillSecondary(candidate_films, used_ids, Len(named))
             filled == named \o [k \in 1..Len(fill) |->
                                   BuildFilmData(fill[k], None, GENERIC_TAGLINE,
                                                 ScoreOf(similar_results, fill[k].id))]
         IN [raised |-> None,
             response |-> [primary |-> primary_data,
                           secondary |-> Take(filled, SecondaryCount)]]

FailureKeepingPayload(error, fault, table, retried, process) ==
    [raised |-> error, response |-> [secondary |-> <<>>], from_cache |-> FALSE,
     table |-> table, retried |-> retried, gen_path |-> "none", candidates |-> <<>>,
     fault |-> fault, ranked |-> NoResponse, process |-> process]

\* a request that ends with an exception raised before the ranker is called
Failure(error, fault, table, retried, process) ==
    [raised |-> error, response |-> NoResult, from_cache |-> FALSE, table |-> table,
     retried |-> retried, gen_path |-> "none", candidates |-> <<>>, fault |-> fault,
     ranked |-> NoResponse, process |-> process]

\* get_recommendations at time t: every outcome the request can have, with
\* the state it leaves behind.  The sentence model and the database may fail
\* where they are called.
GetRecommendations(answers, replies) ==
    LET cache_key == CacheKey(answers)
        cached == CacheGet(llm_cache, cache_key, now)
        same == [film_ids |-> film_ids, film_embeddings |-> film_embeddings,
                 initialized |-> initialized, requests |-> requests, now |-> now]
    IN IF cached.raised # None
       THEN {Failure(cached.raised, "none", cached.table, FALSE, same)}
       ELSE IF ~cached.result.is_none
       THEN {[raised |-> None, response |-> JsonLoadsCacheData(cached.result.text),
              from_cache |-> TRUE,
              table |-> cached.table, retried |-> FALSE, gen_path |-> "none",
              candidates |-> <<>>, fault |-> "none", ranked |-> NoResponse,
              process |-> same]}
       ELSE
         LET user_embedding == Encode(answers.mood)
             filtered == GetFilmsWithEmbeddings(films, answers.duration,
                                                OptList(answers.platforms),
                                                OptList(answers.genres))
             retried == filtered = <<>>
             films_with_embeddings ==
                 IF retried THEN GetFilmsWithEmbeddings(films, None, NoList, NoList)
                 ELSE filtered
             loaded == LoadEmbeddings([i \in 1..Len(films_with_embeddings) |->
                                         <<films_with_embeddings[i].id,
                                           films_with_embeddings[i].vector>>])
             film_id_filter == OptList([i \in 1..Len(films_with_embeddings) |->
                                          films_with_embeddings[i].id])
             after_load == [film_ids |-> loaded.film_ids,
                            film_embeddings |-> loaded.film_embeddings,
                            initialized |-> initialized, requests |-> requests,
                            now |-> now]
         IN
           (IF IsBlank(answers.mood) THEN {}
            ELSE {Failure("RuntimeError", "embedding", cached.table, FALSE, same)})
           \cup {Failure("OperationalError", "catalog", cached.table, FALSE, same)}
           \cup (IF retried
                 THEN {Failure("OperationalError", "catalog_retry", cached.table,
                               TRUE, same)}
                 ELSE {})
           \cup UNION {
              IF similar_results = <<>> THEN {}
              ELSE {Failure("OperationalError", "catalog_by_ids", cached.table,
                            retried, after_load)}
              : similar_results \in FindSimilar(loaded.film_ids, loaded.film_embeddings,
                                                user_embedding, TopK, film_id_filter)}
           \cup UNION {
              LET candidate_films ==
                      GetFilmsByIds(films, [i \in 1..Len(similar_results) |->
                                              similar_results[i].film_id])
                  candidates_for_llm == [i \in 1..Len(candidate_films) |->
                                           CandidateOf(candidate_films[i])]
              IN {LET built == IF g.out.raised # None
                               THEN [raised |-> g.out.raised, response |-> NoResult]
                               ELSE BuildResponse(candidate_films, similar_results,
                                                  g.out.response)
                      stored == IF built.raised # None
                                THEN [raised |-> None, table |-> cached.table]
                                ELSE CacheSet(cached.table, cache_key,
                                              JsonDumpsCacheData(built.response), g.now)
                  IN [raised |-> IF built.raised # None THEN built.raised
                                 ELSE stored.raised,
                      response |-> IF stored.raised # None THEN NoResult
                                   ELSE built.response,
                      from_cache |-> FALSE,
                      table |-> stored.table,
                      retried |-> retried,
                      gen_path |-> g.out.path,
                      candidates |-> [i \in 1..Len(candidate_films) |->
                                        candidate_films[i].id],
                      fault |-> "none",
                      ranked |-> g.out.response,
                      process |-> [film_ids |-> loaded.film_ids,
                                   film_embeddings |-> loaded.film_embeddings,
                                   initialized |-> g.initialized,
                                   requests |-> g.requests,
                                   now |-> g.now]]
                  : g \in Generate(settings, initialized, requests, now, answers.mood,
                                   candidates_for_llm, replies)}
              : similar_results \in FindSimilar(loaded.film_ids, loaded.film_embeddings,
                                                user_embedding, TopK, film_id_filter)}

(***************************************************************************)
(* Spec: requests served one after another by get_recommendations on one   *)
(* process and one cache table, the clock advancing in between.  The       *)
(* configuration and the catalog are fixed at start; a behaviour serves at *)
(* most two requests.                                                      *)
(***************************************************************************)
\* most secondary entries in a reply of the external model to a request
MaxPipelineSecondary == 1

PipelineSettings ==
    {[llm_mock_mode |-> TRUE, gemini_api_key |-> ""],
     [llm_mock_mode |-> FALSE, gemini_api_key |-> "key"]}

Catalogs == {{}, {1, 3}, {1, 9}}

\* the requests: one no film is filtered out for, one whose filters match a
\* single film, one whose filters match no film, and that one again with a
\* blank mood
Requests ==
    {[mood |-> m, duration |-> f[1], platforms |-> f[2], genres |-> f[3],
      deep_question_id |-> 1, deep_question_text |-> "question", deep_answer |-> "answer"]
     : m \in {"stresse, besoin de rire"},
       f \in {<<"any", <<"other">>, <<"surprise">> >>,
              <<">120", <<"Netflix", "Prime">>, <<"Drame">> >>,
              <<"<90", <<"Prime">>, <<"Comedie">> >>}}
    \cup
    {[mood |-> " ", duration |-> "<90", platforms |-> <<"Prime">>,
      genres |-> <<"Comedie">>,
      deep_question_id |-> 1, deep_question_text |-> "question", deep_answer |-> "answer"]}

PipelineReplies ==
    LlmReplies(WellFormedDocs({IntId(1), IntId(99), ListId}, {IntId(3), IntId(99)},
                              MaxPipelineSecondary))

Init ==
    /\ FreshProcess
    /\ settings \in PipelineSettings
    /\ films \in Catalogs
    /\ call = NoCall

(***************************************************************************)
(* POST /api/recommend (app/api/recommend.py): what the caller receives.   *)
(* The text of an exception is a token for its class: exceptions of        *)
(* different classes have different texts.                                 *)
(***************************************************************************)
\* str(e)
StrOf(error) == <<"str", error>>

\* the endpoint around get_recommendations: the response body, or the
\* HTTPException raised for any exception caught
Endpoint(r) ==
    IF r.raised = None
    THEN [status_code |-> 200, primary |-> r.response.primary,
          secondary |-> r.response.secondary, from_cache |-> r.from_cache]
    ELSE [status_code |-> 500,
          detail |-> <<"Failed to generate recommendations: ", StrOf(r.raised)>>]

\* what a request with outcome r leaves behind
Served(answers, r) ==
    /\ ClockOk(r.process.now)
    /\ llm_cache' = r.table
    /\ film_ids' = r.process.film_ids
    /\ film_embeddings' = r.process.film_embeddings
    /\ initialized' = r.process.initialized
    /\ requests' = r.process.requests
    /\ now' = r.process.now
    /\ prev' = call
    /\ lastSet' =
          IF r.raised = None /\ ~r.from_cache
          THEN [x \in DOMAIN lastSet \cup {CacheKey(answers)} |->
                  IF x = CacheKey(answers)
                  THEN [response |-> r.response,
                        expires_at |->
                           (CHOOSE row \in RowsOf(r.table, x) : TRUE).expires_at]
                  ELSE lastSet[x]]
          ELSE lastSet
    /\ UNCHANGED <<settings, films, tasks, admitted>>

\* the record of a request and its outcome
CallOf(answers, r) ==
    [op |-> "get_recommendations",
     answers |-> answers,
     at |-> now,
     cache_was_empty |-> llm_cache = {},
     stored |-> IF CacheKey(answers) \in DOMAIN lastSet
                THEN lastSet[CacheKey(answers)]
                ELSE NoResult,
     live |-> ~UsesMock(settings),
     retried |-> r.retried,
     candidates |-> r.candidates,
     gen_path |-> r.gen_path,
     fault |-> r.fault,
     raised |-> r.raised,
     from_cache |-> r.from_cache,
     response |-> r.response,
     http |-> Endpoint(r)]

Recommend ==
    /\ prev = NoCall
    /\ \E answers \in Requests :
          \E r \in GetRecommendations(answers, PipelineReplies) :
             /\ Served(answers, r)
             /\ call' = CallOf(answers, r)

Next == Recommend \/ Tick

Spec == Init /\ [][Next]_vars

\* the request found the catalog empty on the filtered query and on the
\* retry without filters, both of which answered
FoundCatalogEmpty(c) ==
    /\ c.op = "get_recommendations"
    /\ films = {}
    /\ c.retried
    /\ c.fault = "none"

\* the external model was called: the limiter admitted the call, the reply
\* was parsed or the fallback was taken after it
ModelCalled(c) == requests # <<>> \/ c.gen_path = "parsed"

\* C30 (as claimed): a request that finds the catalog empty on the filtered
\* query and on the unfiltered retry fails: the caller gets an error and no
\* response, no cache entry is written, and the external model is not
\* called.
C30_EmptyCatalogFailsBeforeModel ==
    FoundCatalogEmpty(call) =>
       /\ call.raised # None
       /\ call.response = NoResult
       /\ call.http.status_code = 500
       /\ llm_cache = {}
       /\ ~ModelCalled(call)

\* C1: a request that returns on a cache that was empty was not served from
\* the cache; a request that returns no later than the expiry of the entry an
\* earlier request with the same inputs stored is served from the cache, with
\* the primary and the secondary list that earlier request returned.
C1_RepeatServedFromCache ==
    (call.op = "get_recommendations" /\ call.raised = None)
        => /\ call.cache_was_empty => ~call.from_cache
           /\ ("expires_at" \in DOMAIN call.stored /\ call.at <= call.stored.expires_at)
                 => (/\ call.from_cache
                     /\ call.response.primary = call.stored.response.primary
                     /\ call.response.secondary = call.stored.response.secondary)

\* C1 witness: the second of two requests with the same inputs, made later
\* but within the TTL, was served from the cache what the first one returned,
\* a primary and at least one secondary.
C1_Witness ==
    /\ call.op = "get_recommendations"
    /\ prev.op = "get_recommendations"
    /\ prev.raised = None
    /\ ~prev.from_cache
    /\ prev.cache_was_empty
    /\ call.answers = prev.answers
    /\ call.at > prev.at
    /\ call.raised = None
    /\ call.from_cache
    /\ call.response = prev.response
    /\ Len(call.response.secondary) > 0

\* C2: in live mode, a request whose candidate list is not empty and whose
\* ranking failed (the prompt could not be built, or the reply was an error,
\* not JSON or not of the schema) returns a response whose justification and
\* taglines are the generic texts.
C2_RankerFailureAbsorbed ==
    (/\ call.op = "get_recommendations"
     /\ call.live
     /\ call.candidates # <<>>
     /\ call.gen_path \in {"prompt", "fallback"})
        => /\ call.raised = None
           /\ call.response.primary.reasoning = FALLBACK_REASONING
           /\ \A i \in 1..Len(call.response.secondary) :
                 call.response.secondary[i].tagline = GENERIC_TAGLINE

\* C3: a request whose filters match no film of a catalog that is not empty,
\* and so retries without filters, returns a response with a primary (none of
\* the sentence model and the database failing).
C3_RetryReturnsRecommendation ==
    (call.op = "get_recommendations" /\ call.retried /\ films # {}
        /\ call.fault = "none")
        => (call.raised = None /\ "primary" \in DOMAIN call.response)

\* the ranker raised: the prompt could not be built, or the mock or the
\* fallback had no candidate
RankerRaised(c) ==
    \/ c.gen_path = "prompt"
    \/ c.gen_path \in {"mock", "fallback"} /\ c.candidates = <<>>

\* C14: a request either returns a response that has a primary film and a
\* secondary list, or raises and carries no response; it raises whenever the
\* sentence model or a catalog access failed or the ranker raised.
C14_ResponseOrFailure ==
    call.op = "get_recommendations"
        => /\ call.raised = None =>
                 /\ "primary" \in DOMAIN call.response
                 /\ "id" \in DOMAIN call.response.primary
                 /\ "secondary" \in DOMAIN call.response
           /\ call.raised # None => call.response = NoResult
           /\ call.fault # "none" => call.raised # None
           /\ RankerRaised(call) => call.raised # None

\* C14 witness: after a first request failed on a catalog access, a request
\* whose ranker returned a primary although no candidate was found has
\* raised, carrying no response.
C14_Witness ==
    /\ prev.op = "get_recommendations"
    /\ prev.fault = "catalog_by_ids"
    /\ prev.response = NoResult
    /\ call.op = "get_recommendations"
    /\ call.gen_path = "parsed"
    /\ call.candidates = <<>>
    /\ call.raised = "AttributeError"
    /\ call.response = NoResult

\* C22: a request whose key has an entry that is not expired is served from
\* the cache and cannot fail (nothing that may fail is called); a request
\* served from the cache leaves the clock, the cache table (payloads and
\* expiry times), the similarity index, the limiter and the ranker's
\* configuration as they were.
C22_HitIsReadOnly ==
    [][(<<call, prev>>' # <<call, prev>> /\ call'.op = "get_recommendations") =>
          /\ (\E row \in RowsOf(llm_cache, CacheKey(call'.answers)) :
                 now <= row.expires_at)
                => (call'.raised = None /\ call'.from_cache)
          /\ (call'.raised = None /\ call'.from_cache)
                => UNCHANGED <<now, llm_cache, film_ids, film_embeddings, requests,
                               initialized>>]_vars

\* a request served from the cache some time after the entry was written,
\* the entry still expiring a TTL after the first request
C22_Witness ==
    /\ call.op = "get_recommendations" /\ call.raised = None /\ call.from_cache
    /\ prev.op = "get_recommendations" /\ prev.raised = None /\ ~prev.from_cache
    /\ call.at > prev.at
    /\ \E row \in RowsOf(llm_cache, CacheKey(call.answers)) :
          /\ row.created_at < call.at
          /\ row.expires_at = row.created_at + TtlSeconds
          /\ row.expires_at >= call.at

\* C23: a request touches no entry of another key; a request that was not
\* served from the cache and returned leaves one entry for its key, written
\* when it ended, whose payload is the primary and the secondary list it
\* returned; a request that raised, at whatever stage, wrote no entry (the
\* table holds for its key nothing it did not hold before).
C23_WriteOnlyAfterFullRun ==
    [][(<<call, prev>>' # <<call, prev>> /\ call'.op = "get_recommendations") =>
          LET key == CacheKey(call'.answers)
          IN /\ RowsOfOthers(llm_cache', key) = RowsOfOthers(llm_cache, key)
             /\ IF call'.raised = None /\ ~call'.from_cache
                THEN \E row \in llm_cache' :
                        /\ RowsOf(llm_cache', key) = {row}
                        /\ row.response = JsonDumpsCacheData(call'.response)
                        /\ row.created_at = now'
                ELSE RowsOf(llm_cache', key) \subseteq RowsOf(llm_cache, key)]_vars

\* a request failed and left the table empty; the same request, made again,
\* went through the pipeline and left the entry of what it returned
C23_Witness ==
    /\ prev.op = "get_recommendations" /\ prev.raised # None
    /\ call.op = "get_recommendations" /\ call.raised = None /\ ~call.from_cache
    /\ call.answers = prev.answers
    /\ call.cache_was_empty
    /\ \E row \in llm_cache :
          /\ llm_cache = {row}
          /\ row.input_hash = CacheKey(call.answers)
          /\ row.response = JsonDumpsCacheData(call.response)

\* C17 (as claimed): two failing requests receive the same failure: the
\* same status and the same message, whatever exception was raised inside.
C17_FailureContentIndependent ==
    (/\ prev.op = "get_recommendations" /\ prev.raised # None
     /\ call.op = "get_recommendations" /\ call.raised # None)
        => call.http = prev.http

(***************************************************************************)
(* SpecOne: one request served by get_recommendations in a fresh process   *)
(* over a catalog of two films or of five (two of them equally close to    *)
(* the mood), the external model replying with up to five secondary        *)
(* entries.                                                                *)
(***************************************************************************)
\* most secondary entries in a reply of the external model
MaxOneSecondary == 5

OneCatalogs == {{1, 2}, {1, 2, 3, 4, 5}}

\* replies sent bare, whose texts are all present or all missing; film 2 is
\* a candidate and not the closest one, film 99 is in no catalog
OneReplies ==
    {r \in LlmReplies(WellFormedDocs({IntId(2), IntId(99)}, {IntId(2), IntId(99)},
                                     MaxOneSecondary)) :
        r.kind = "text" =>
           /\ r.wrap = "plain"
           /\ r.body.is_json =>
                 \A k \in 1..Len(r.body.doc.secondary) :
                    (r.body.doc.secondary[k].tagline = None)
                        <=> (r.body.doc.primary.reasoning = None)}

OneInit ==
    /\ FreshProcess
    /\ settings \in PipelineSettings
    /\ films \in OneCatalogs
    /\ call = NoCall

RecommendOnce ==
    /\ call.op = "none"
    /\ \E answers \in Requests :
          \E r \in GetRecommendations(answers, OneReplies) :
             /\ Served(answers, r)
             /\ call' = [ranked |-> r.ranked] @@ CallOf(answers, r)

OneNext == RecommendOnce

SpecOne == OneInit /\ [][OneNext]_vars

\* the request was computed (not served from the cache) and returned
Computed(c) == c.op = "get_recommendations" /\ c.raised = None /\ ~c.from_cache

\* C15 (as claimed): a computed response made from five candidates or more
\* has a primary with a reasoning and four secondaries, each with a tagline.
C15_TextsNeverNull ==
    (Computed(call) /\ Len(call.candidates) >= 5)
        => /\ call.response.primary.reasoning # None
           /\ Len(call.response.secondary) = 4
           /\ \A k \in 1..Len(call.response.secondary) :
                 call.response.secondary[k].tagline # None

\* the ranker's secondary entries whose id is a candidate, in the ranker's
\* order
ResolvedEntries(c) ==
    SelectSeq(c.ranked.secondary,
              LAMBDA e : e.film_id.type = "int" /\ e.film_id.v \in Range(c.candidates))

\* C19: in a computed response the primary is the candidate the ranker named,
\* or the first candidate when the ranker named none of them; the secondaries
\* are the ranker's entries that name a candidate, in its order and with its
\* taglines, followed, while there are fewer than four, by the candidates
\* not used so far, in retrieval order, with the generic tagline.
C19_AssemblyRule ==
    Computed(call) =>
       LET pid == call.ranked.primary.film_id
           resolved == ResolvedEntries(call)
           n == Len(resolved)
           secondary == call.response.secondary
           used_ids == {call.response.primary.id}
                          \cup {resolved[k].film_id.v : k \in 1..n}
           unused == SelectSeq(call.candidates, LAMBDA i : i \notin used_ids)
       IN /\ call.response.primary.id =
                IF pid.v \in Range(call.candidates) THEN pid.v ELSE call.candidates[1]
          /\ Len(secondary) = Min(SecondaryCount, n + Len(unused))
          /\ \A k \in 1..Len(secondary) :
                IF k <= n
                THEN /\ secondary[k].id = resolved[k].film_id.v
                     /\ secondary[k].tagline = resolved[k].tagline
                ELSE /\ secondary[k].id = unused[k - n]
                     /\ secondary[k].tagline = GENERIC_TAGLINE

\* the ranker named a primary that is no candidate and two secondaries, one
\* a candidate and one not; the response has the first candidate as primary,
\* the named secondary first and three backfilled ones after it
C19_Witness ==
    /\ Computed(call)
    /\ call.gen_path = "parsed"
    /\ call.ranked.primary.film_id = IntId(99)
    /\ Len(call.ranked.secondary) = 2
    /\ Len(ResolvedEntries(call)) = 1
    /\ call.response.primary.id = call.candidates[1]
    /\ Len(call.response.secondary) = SecondaryCount
    /\ call.response.secondary[1].tagline = "llm-tagline"
    /\ call.response.secondary[SecondaryCount].tagline = GENERIC_TAGLINE

\* C20 (as claimed): the items of a response are pairwise distinct films.
C20_ItemsPairwiseDistinct ==
    (call.op = "get_recommendations" /\ call.raised = None) =>
       LET ids == <<call.response.primary.id>>
                     \o [k \in 1..Len(call.response.secondary) |->
                           call.response.secondary[k].id]
       IN \A i, j \in 1..Len(ids) : i # j => ids[i] # ids[j]

\* C21: a response has at most four secondaries, and exactly four when the
\* retrieval gave five candidates or more, however many entries the ranker
\* returned and however many of them name a candidate.
C21_SecondaryCount ==
    (call.op = "get_recommendations" /\ call.raised = None) =>
       /\ Len(call.response.secondary) <= SecondaryCount
       /\ Len(call.candidates) >= 5 => Len(call.response.secondary) = SecondaryCount

\* five candidates, the ranker returned two entries of which one names a
\* candidate: four secondaries
C21_Witness ==
    /\ Computed(call)
    /\ Len(call.candidates) >= 5
    /\ Len(call.ranked.secondary) = 2
    /\ Len(ResolvedEntries(call)) = 1
    /\ Len(call.response.secondary) = SecondaryCount

(***************************************************************************)
(* SpecLimiter: calls of RateLimiter.acquire on one limiter, each returned *)
(* before the next is made, the clock advancing in between.                *)
(***************************************************************************)
\* max_requests of the limiter
LimiterMax == 2

\* most acquire calls of a behaviour
MaxAcquires == 4

LimiterInit ==
    /\ FreshProcess
    /\ settings = DefaultSettings
    /\ films = {}
    /\ call = NoCall

AcquireCall ==
    /\ Len(admitted) < MaxAcquires
    /\ LET a == Acquire(requests, now, LimiterMax)
       IN /\ ClockOk(a.now)
          /\ requests' = a.requests
          /\ now' = a.now
          /\ admitted' = Append(admitted, a.now)
          /\ call' = [op |-> "acquire", at |-> now, slept |-> a.slept,
                      full |-> Len(SelectSeq(requests, LAMBDA x : now - x < Window))
                                  >= LimiterMax]
    /\ UNCHANGED <<llm_cache, film_ids, film_embeddings, initialized, settings,
                   films, prev, lastSet, tasks>>

LimiterNext == AcquireCall \/ Tick

SpecLimiter == LimiterInit /\ [][LimiterNext]_vars

\* the admissions that fall in the window opening at admission i
InWindowFrom(i) ==
    {j \in 1..Len(admitted) :
        admitted[j] >= admitted[i] /\ admitted[j] - admitted[i] < Window}

\* C11 (as claimed): at most max_requests admissions fall in any window of
\* 60 seconds.
C11_WindowNeverExceeded ==
    \A i \in 1..Len(admitted) : Cardinality(InWindowFrom(i)) <= LimiterMax

(***************************************************************************)
(* SpecLimiterConc: callers of acquire on the limiter of the process-wide  *)
(* LLMService, on one event loop.  A caller runs without interruption up   *)
(* to `await asyncio.sleep`, and from its wake-up (at the due time or      *)
(* later) to the end.                                                      *)
(***************************************************************************)
\* max_requests of the shared limiter
ConcLimiterMax == 2

\* most callers of a behaviour
MaxTasks == 4

\* acquire up to the await: the caller is admitted, or goes to sleep
AcquireStart ==
    /\ Len(tasks) < MaxTasks
    /\ LET kept == SelectSeq(requests, LAMBDA x : now - x < Window)
           sleep_time == IF kept = <<>> THEN 0 ELSE Window - (now - kept[1])
       IN IF Len(kept) >= ConcLimiterMax /\ sleep_time > 0
          THEN /\ requests' = kept
               /\ tasks' = Append(tasks, [pc |-> "sleeping", at |-> now,
                                          wake_at |-> now + sleep_time])
               /\ admitted' = admitted
          ELSE /\ requests' = IF Len(kept) >= ConcLimiterMax THEN <<now>>
                              ELSE Append(kept, now)
               /\ tasks' = Append(tasks, [pc |-> "done", at |-> now, wake_at |-> now])
               /\ admitted' = Append(admitted, now)
    /\ call' = [op |-> "acquire"]
    /\ UNCHANGED <<now, llm_cache, film_ids, film_embeddings, initialized, settings,
                   films, prev, lastSet>>

\* a caller that, woken, records itself without emptying the list
AcquireResumeKeeping ==
    /\ \E i \in 1..Len(tasks) :
          /\ tasks[i].pc = "sleeping"
          /\ now >= tasks[i].wake_at
          /\ requests' = Append(requests, now)
          /\ tasks' = [tasks EXCEPT ![i].pc = "done"]
          /\ admitted' = Append(admitted, now)
    /\ call' = [op |-> "acquire"]
    /\ UNCHANGED <<now, llm_cache, film_ids, film_embeddings, initialized, settings,
                   films, prev, lastSet>>

\* a caller that, woken, finds the list as it left it and sleeps again
AcquireResumeAsleep ==
    /\ \E i \in 1..Len(tasks) :
          /\ tasks[i].pc = "sleeping"
          /\ now >= tasks[i].wake_at
          /\ tasks' = [tasks EXCEPT ![i].wake_at = now + Window]
    /\ call' = [op |-> "acquire"]
    /\ UNCHANGED <<now, llm_cache, film_ids, film_embeddings, initialized, settings,
                   films, prev, lastSet, requests, admitted>>

\* acquire from the wake-up: the list is emptied, the caller is admitted
AcquireResume ==
    /\ \E i \in 1..Len(tasks) :
          /\ tasks[i].pc = "sleeping"
          /\ now >= tasks[i].wake_at
          /\ requests' = <<now>>
          /\ tasks' = [tasks EXCEPT ![i].pc = "done"]
          /\ admitted' = Append(admitted, now)
    /\ call' = [op |-> "acquire"]
    /\ UNCHANGED <<now, llm_cache, film_ids, film_embeddings, initialized, settings,
                   films, prev, lastSet>>

LimiterConcNext == AcquireStart \/ AcquireResume \/ Tick

SpecLimiterConc == LimiterInit /\ [][LimiterConcNext]_vars

\* C12 (as claimed): with callers interleaving, at most max_requests
\* admissions fall in any window of 60 seconds.
C12_ConcurrentWindowNeverExceeded ==
    \A i \in 1..Len(admitted) : Cardinality(InWindowFrom(i)) <= ConcLimiterMax

\* C39: with callers interleaving, the limiter's list never holds more than
\* max_requests instants, and holds them in the order of time.
C39_ListBoundedAndOrdered ==
    /\ Len(requests) <= ConcLimiterMax
    /\ \A i, j \in 1..Len(requests) : i < j => requests[i] <= requests[j]

\* the list is full, of two different instants, while a caller is asleep
C39_Witness ==
    /\ Len(requests) = ConcLimiterMax
    /\ \E i, j \in 1..Len(requests) : requests[i] < requests[j]
    /\ \E i \in 1..Len(tasks) : tasks[i].pc = "sleeping"

(***************************************************************************)
(* SpecLimiterLive: the callers of SpecLimiterConc, arriving up to a last  *)
(* instant, with time that goes on: the clock advances by a step or up to  *)
(* the next wake-up, and a caller whose sleep is due is resumed.           *)
(***************************************************************************)
\* the last instant at which a caller arrives
LastArrival == 120

LiveStart == now <= LastArrival /\ AcquireStart

\* the callers asleep
Sleepers == {i \in 1..Len(tasks) : tasks[i].pc = "sleeping"}

LiveTick ==
    /\ \E d \in {ClockStep} \cup {tasks[i].wake_at - now : i \in Sleepers} :
          /\ d > 0
          /\ now + d <= LastArrival + Window
          /\ \A i \in Sleepers : now + d <= tasks[i].wake_at
          /\ now' = now + d
    /\ UNCHANGED <<llm_cache, film_ids, film_embeddings, requests, initialized,
                   settings, films, call, prev, lastSet, tasks, admitted>>

LimiterLiveNext == LiveStart \/ AcquireResume \/ LiveTick

SpecLimiterLive ==
    /\ LimiterInit
    /\ [][LimiterLiveNext]_vars
    /\ WF_vars(AcquireResume)
    /\ WF_vars(LiveTick)

\* the calls recorded that are in the window at the present instant
InWindowNow == SelectSeq(requests, LAMBDA x : now - x < Window)

\* a caller waits for no time, or for more than 0 and at most the window,
\* and only a caller that waits is asleep
BoundedWaits ==
    \A i \in 1..Len(tasks) :
       /\ tasks[i].wake_at - tasks[i].at >= 0
       /\ tasks[i].wake_at - tasks[i].at <= Window
       /\ tasks[i].pc = "sleeping" => tasks[i].wake_at > tasks[i].at
       /\ tasks[i].pc = "done" => i <= Len(admitted) + Cardinality(Sleepers)

\* a caller that arrives while fewer than max_requests calls are recorded in
\* the window is admitted at once; a caller is resumed once, and admitted
AdmittedAtOnceOrOnResume ==
    /\ (Len(tasks') = Len(tasks) + 1 /\ Len(InWindowNow) < ConcLimiterMax) =>
          /\ tasks'[Len(tasks')].pc = "done"
          /\ admitted' = Append(admitted, now)
    /\ \A i \in 1..Len(tasks) :
          /\ tasks[i].pc = "done" => tasks'[i] = tasks[i]
          /\ (tasks[i].pc = "sleeping" /\ tasks'[i].pc = "done") =>
                /\ now = tasks[i].wake_at
                /\ admitted' = Append(admitted, now)

\* C34: every acquire returns, admitted: at once when fewer than
\* max_requests calls are recorded in the window, and otherwise at once or
\* after one sleep of more than 0 and at most 60 seconds.
C34_AcquireTerminates ==
    /\ []BoundedWaits
    /\ [][AdmittedAtOnceOrOnResume]_vars
    /\ \A i \in 1..MaxTasks :
          (Len(tasks) >= i /\ tasks[i].pc = "sleeping")
             ~> (Len(tasks) >= i /\ tasks[i].pc = "done" /\ now = tasks[i].wake_at)

\* a caller that slept the whole window has been admitted, another is asleep
C34_Witness ==
    /\ \E i \in 1..Len(tasks) :
          /\ tasks[i].pc = "done"
          /\ tasks[i].wake_at - tasks[i].at = Window
          /\ now = tasks[i].wake_at
    /\ Sleepers # {}

(***************************************************************************)
(* SpecCacheConc: calls of CacheService.set, each on its own database      *)
(* session, interleaving at the awaits: a call reads the row of its key    *)
(* (SetSelect), and later flushes and commits (SetCommit), unless its      *)
(* caller cancels it in between (SetCancel).  Column input_hash is unique: *)
(* the INSERT of a key that is in the table fails.                         *)
(***************************************************************************)
\* the tasks that have committed or failed so far
Finished(ts) == {i \in 1..Len(ts) : ts[i].pc = "done"}

\* set up to the first await: the existence check
SetSelect ==
    /\ Len(tasks) < MaxTasks
    /\ \E k \in CacheKeys, payload \in Payloads :
          tasks' = Append(tasks, [pc |-> "selected", key |-> k, payload |-> payload,
                                  existing |-> ScalarOneOrNone(RowsOf(llm_cache, k)).rows,
                                  raised |-> None, order |-> 0])
    /\ call' = [op |-> "set"]
    /\ UNCHANGED <<now, llm_cache, film_ids, film_embeddings, requests, initialized,
                   settings, films, prev, lastSet, admitted>>

\* set from the existence check on: the UPDATE of the row read, or the
\* INSERT of a new row, and the commit
SetCommit ==
    /\ \E i \in 1..Len(tasks) :
          /\ tasks[i].pc = "selected"
          /\ LET t == tasks[i]
                 entry == create_with_ttl(t.key, t.payload, TTL_DAYS, now)
                 order == Cardinality(Finished(tasks)) + 1
                 current == RowsOf(llm_cache, t.key)
             IN IF t.existing # {}
                THEN /\ llm_cache' = (llm_cache \ current) \cup
                                        {[r EXCEPT !.response = t.payload,
                                                   !.created_at = now,
                                                   !.expires_at = entry.expires_at]
                                         : r \in current}
                     /\ tasks' = [tasks EXCEPT ![i].pc = "done", ![i].order = order]
                ELSE IF current # {}
                THEN /\ llm_cache' = llm_cache
                     /\ tasks' = [tasks EXCEPT ![i].pc = "done", ![i].order = order,
                                               ![i].raised = "IntegrityError"]
                ELSE /\ llm_cache' = llm_cache \cup {entry}
                     /\ tasks' = [tasks EXCEPT ![i].pc = "done", ![i].order = order]
    /\ call' = [op |-> "set"]
    /\ UNCHANGED <<now, film_ids, film_embeddings, requests, initialized,
                   settings, films, prev, lastSet, admitted>>

\* the caller of a request suspended in set (the existence check made, the
\* commit not yet) cancels it: CancelledError is raised at the await, nothing
\* shields the write, and the session is closed with its pending changes
\* rolled back
SetCancel ==
    /\ \E i \in 1..Len(tasks) :
          /\ tasks[i].pc = "selected"
          /\ tasks' = [tasks EXCEPT ![i].pc = "cancelled",
                                    ![i].raised = "CancelledError"]
    /\ call' = [op |-> "cancel"]
    /\ UNCHANGED <<now, llm_cache, film_ids, film_embeddings, requests, initialized,
                   settings, films, prev, lastSet, admitted>>

CacheConcNext == SetSelect \/ SetCommit \/ SetCancel \/ Tick

SpecCacheConc == CacheInit /\ [][CacheConcNext]_vars

\* C13 (as claimed): when two calls of set for one key have both found no
\* row and have both finished, neither raised, and the table holds one row
\* for the key, with the payload of the call that finished last.
C13_ConcurrentSetLastWriteWins ==
    \A i, j \in Finished(tasks) :
       (/\ i # j
        /\ tasks[i].key = tasks[j].key
        /\ tasks[i].existing = {} /\ tasks[j].existing = {}
        /\ tasks[i].order < tasks[j].order
        /\ \A m \in Finished(tasks) : tasks[m].order <= tasks[j].order)
          => /\ tasks[i].raised = None /\ tasks[j].raised = None
             /\ \E r \in llm_cache :
                   RowsOf(llm_cache, tasks[j].key) = {r} /\ r.response = tasks[j].payload

\* C18 (as claimed): once a request cancelled during its cache write is
\* over, the table holds an entry for its key.
C18_CancelledWriteCompletes ==
    \A i \in 1..Len(tasks) :
       tasks[i].pc = "cancelled" => RowsOf(llm_cache, tasks[i].key) # {}

(***************************************************************************)
(* SpecLoop: requests served concurrently by get_recommendations on the    *)
(* event loop of one process.  A request runs from one await to the next   *)
(* without interruption; another request may run while it waits.  The      *)
(* awaits are the cache lookup, the catalog query, its retry without       *)
(* filters and get_films_by_ids; the ranker call and the cache write that  *)
(* end the request do not touch the similarity service and are taken as    *)
(* one step.  The external model is configured; the clock stands still but *)
(* for the sleep of the limiter.                                           *)
(***************************************************************************)
\* most requests of a behaviour
MaxRequests == 2

LoopSettings == {[llm_mock_mode |-> FALSE, gemini_api_key |-> "key"]}

LoopReplies == LlmReplies(WellFormedDocs({IntId(1)}, {}, 0))

LoopInit ==
    /\ FreshProcess
    /\ settings \in LoopSettings
    /\ films \in Catalogs
    /\ call = NoCall

\* the film ids of catalog rows
IdsOf(rows) == [k \in 1..Len(rows) |-> rows[k].id]

\* a request arrives: get_recommendations up to the await of the cache lookup
LoopArrive ==
    /\ Len(tasks) < MaxRequests
    /\ \E answers \in Requests :
          tasks' = Append(tasks, [pc |-> "cache", answers |-> answers, pool |-> <<>>,
                                  index_ids |-> <<>>, index_rows |-> <<>>,
                                  similar |-> <<>>, turn |-> 0, raised |-> None])
    /\ call' = [op |-> "arrive"]
    /\ UNCHANGED <<now, llm_cache, film_ids, film_embeddings, requests, initialized,
                   settings, films, prev, lastSet, admitted>>

\* from the cache lookup to the await of the catalog query: a hit ends the
\* request
LoopCache ==
    /\ \E i \in 1..Len(tasks) :
          /\ tasks[i].pc = "cache"
          /\ LET cached == CacheGet(llm_cache, CacheKey(tasks[i].answers), now)
             IN /\ llm_cache' = cached.table
                /\ tasks' = [tasks EXCEPT
                                ![i].pc = IF cached.raised = None /\ cached.result.is_none
                                          THEN "filter" ELSE "done",
                                ![i].raised = cached.raised]
    /\ call' = [op |-> "cache"]
    /\ UNCHANGED <<now, film_ids, film_embeddings, requests, initialized,
                   settings, films, prev, lastSet, admitted>>

\* load_embeddings of the rows fetched, then find_similar on the service as
\* it is then, up to the await of get_films_by_ids: lines 115 to 129, which
\* hold no await
Retrieve(i, rows) ==
    LET loaded == LoadEmbeddings([k \in 1..Len(rows) |-> <<rows[k].id, rows[k].vector>>])
    IN /\ film_ids' = loaded.film_ids
       /\ film_embeddings' = loaded.film_embeddings
       /\ \E similar_results \in FindSimilar(film_ids', film_embeddings',
                                              Encode(tasks[i].answers.mood), TopK,
                                              OptList(IdsOf(rows))) :
             tasks' = [tasks EXCEPT
                         ![i].pc = "by_ids",
                         ![i].pool = IdsOf(rows),
                         ![i].index_ids = film_ids',
                         ![i].index_rows = IF film_embeddings'.is_none THEN <<>>
                                            ELSE film_embeddings'.rows,
                         ![i].similar = similar_results,
                         ![i].turn = 1 + Cardinality({j \in 1..Len(tasks) :
                                                         tasks[j].turn > 0})]

\* from the catalog query on: no row, and the query is made again without
\* filters; or retrieval
LoopFilter ==
    /\ \E i \in 1..Len(tasks) :
          /\ tasks[i].pc = "filter"
          /\ LET a == tasks[i].answers
                 rows == GetFilmsWithEmbeddings(films, a.duration, OptList(a.platforms),
                                                OptList(a.genres))
             IN IF rows = <<>>
                THEN /\ tasks' = [tasks EXCEPT ![i].pc = "retry"]
                     /\ UNCHANGED <<film_ids, film_embeddings>>
                ELSE Retrieve(i, rows)
    /\ call' = [op |-> "filter"]
    /\ UNCHANGED <<now, llm_cache, requests, initialized, settings, films, prev,
                   lastSet, admitted>>

\* from the query without filters on: retrieval
LoopRetry ==
    /\ \E i \in 1..Len(tasks) :
          /\ tasks[i].pc = "retry"
          /\ Retrieve(i, GetFilmsWithEmbeddings(films, None, NoList, NoList))
    /\ call' = [op |-> "retry"]
    /\ UNCHANGED <<now, llm_cache, requests, initialized, settings, films, prev,
                   lastSet, admitted>>

\* from get_films_by_ids to the end: the ranker, the assembly, the cache write
LoopFinish ==
    /\ \E i \in 1..Len(tasks) :
          /\ tasks[i].pc = "by_ids"
          /\ LET similar_results == tasks[i].similar
                 candidate_films == GetFilmsByIds(films,
                                                  [k \in 1..Len(similar_results) |->
                                                     similar_results[k].film_id])
             IN \E g \in Generate(settings, initialized, requests, now,
                                   tasks[i].answers.mood,
                                   [k \in 1..Len(candidate_films) |->
                                      CandidateOf(candidate_films[k])],
                                   LoopReplies) :
                   LET built == IF g.out.raised # None
                                THEN [raised |-> g.out.raised, response |-> NoResult]
                                ELSE BuildResponse(candidate_films, similar_results,
                                                   g.out.response)
                       stored == IF built.raised # None
                                 THEN [raised |-> None, table |-> llm_cache]
                                 ELSE CacheSet(llm_cache, CacheKey(tasks[i].answers),
                                               JsonDumpsCacheData(built.response), g.now)
                   IN /\ ClockOk(g.now)
                      /\ now' = g.now
                      /\ initialized' = g.initialized
                      /\ requests' = g.requests
                      /\ llm_cache' = stored.table
                      /\ tasks' = [tasks EXCEPT
                                      ![i].pc = "done",
                                      ![i].raised = IF built.raised # None
                                                    THEN built.raised
                                                    ELSE stored.raised]
    /\ call' = [op |-> "finish"]
    /\ UNCHANGED <<film_ids, film_embeddings, settings, films, prev, lastSet,
                   admitted>>

LoopNext == LoopArrive \/ LoopCache \/ LoopFilter \/ LoopRetry \/ LoopFinish

SpecLoop == LoopInit /\ [][LoopNext]_vars

\* the request has made its retrieval step
Retrieved(task) == task.turn > 0

\* the stored vector of a film, normalised
UnitVectorOf(film_id) ==
    LET vector == FilmRow(film_id).vector
        norm == NormOfRaw(vector)
    IN DivideByNorm(vector, IF norm = 0 THEN Scale ELSE norm)

\* C16: whatever the interleaving, the index find_similar read for a request
\* is the one that request loaded: the ids of the rows it fetched, each with
\* the vector of that film, and every film scored is one of them.
C16_RetrievalReadsOwnLoad ==
    \A i \in 1..Len(tasks) :
       Retrieved(tasks[i]) =>
          /\ tasks[i].index_ids = tasks[i].pool
          /\ Len(tasks[i].index_rows) = Len(tasks[i].pool)
          /\ \A k \in 1..Len(tasks[i].pool) :
                tasks[i].index_rows[k] = UnitVectorOf(tasks[i].pool[k])
          /\ \A k \in 1..Len(tasks[i].similar) :
                tasks[i].similar[k].film_id \in Range(tasks[i].pool)

\* two requests in flight together, the second retrieving on its own rows
\* while the first waited, and the first retrieving after it on other rows
C16_Witness ==
    /\ Len(tasks) >= 2
    /\ Retrieved(tasks[1]) /\ Retrieved(tasks[2])
    /\ tasks[2].turn < tasks[1].turn
    /\ tasks[1].pool # tasks[2].pool
    /\ tasks[1].similar # <<>> /\ tasks[2].similar # <<>>
    /\ film_ids = tasks[1].pool

(***************************************************************************)
(* SpecCatalog: FilmService.get_films_with_embeddings as SQLite answers    *)
(* it.  genres and watch_providers are JSON columns: the list is stored as *)
(* its JSON text, and Film.genres.contains(x) is the SQL                   *)
(*     genres LIKE '%' || ? || '%'                                         *)
(* on that text.  Text is modelled by the characters it is made of; the    *)
(* labels are ASCII.                                                       *)
(***************************************************************************)
AsciiLower ==
    [A |-> "a", B |-> "b", C |-> "c", D |-> "d", E |-> "e", F |-> "f", G |-> "g", H |-> "h", I |-> "i", J |-> "j", K |-> "k", L |-> "l", 
     M |-> "m", N |-> "n", O |-> "o", P |-> "p", Q |-> "q", R |-> "r", S |-> "s", T |-> "t", U |-> "u", V |-> "v", W |-> "w", X |-> "x", Y |-> "y", Z |-> "z"]

\* SQLite's LIKE compares ASCII letters without regard to case
Fold(c) == IF c \in DOMAIN AsciiLower THEN AsciiLower[c] ELSE c

\* text LIKE pattern: % stands for any characters, _ for any one character
RECURSIVE Like(_, _)
Like(text, pattern) ==
    IF pattern = <<>> THEN text = <<>>
    ELSE IF Head(pattern) = "%"
         THEN Like(text, Tail(pattern))
              \/ (text # <<>> /\ Like(Tail(text), pattern))
    ELSE IF text = <<>> THEN FALSE
    ELSE /\ Head(pattern) = "_" \/ Fold(Head(pattern)) = Fold(Head(text))
         /\ Like(Tail(text), Tail(pattern))

\* json.dumps of a string of ASCII letters, digits and spaces
JsonDumpsLabel(label) == <<"\"">> \o label \o <<"\"">>

\* json.dumps of a list of such strings
RECURSIVE JsonDumpsItems(_)
JsonDumpsItems(labels) ==
    IF labels = <<>> THEN <<>>
    ELSE IF Len(labels) = 1 THEN JsonDumpsLabel(labels[1])
    ELSE JsonDumpsLabel(labels[1]) \o <<",", " ">> \o JsonDumpsItems(Tail(labels))

JsonDumpsLabels(labels) == <<"[">> \o JsonDumpsItems(labels) \o <<"]">>

NullColumn == [is_null |-> TRUE]

IntColumn(n) == [is_null |-> FALSE, value |-> n]

JsonColumn(labels) == [is_null |-> FALSE, labels |-> labels]

\* column.contains(other): NULL, hence not selected, on a NULL column.  The
\* value bound is the label, or its JSON text where the parameter is bound
\* with the type of the column.
Contains(column, other, bound_as_json) ==
    /\ ~column.is_null
    /\ Like(JsonDumpsLabels(column.labels),
            <<"%">> \o (IF bound_as_json THEN JsonDumpsLabel(other) ELSE other)
                    \o <<"%">>)

Action == <<"A", "c", "t", "i", "o", "n">>
LowerAction == <<"a", "c", "t", "i", "o", "n">>
Drame == <<"D", "r", "a", "m", "e">>
Netflix == <<"N", "e", "t", "f", "l", "i", "x">>
NetflixKids == <<"N", "e", "t", "f", "l", "i", "x", " ", "K", "i", "d", "s">>
Other == <<"o", "t", "h", "e", "r">>
Surprise == <<"s", "u", "r", "p", "r", "i", "s", "e">>

\* the films of table films that have an embedding
CatalogFilmIds == 1..6

CatalogFilm(i) ==
    [id |-> i,
     runtime |-> CASE i = 1 -> IntColumn(80) [] i = 2 -> IntColumn(90)
                   [] i = 3 -> IntColumn(120) [] i = 4 -> IntColumn(130)
                   [] i = 5 -> NullColumn [] OTHER -> IntColumn(100),
     genres |-> CASE i \in {1, 5} -> JsonColumn(<<Action>>)
                  [] i = 2 -> JsonColumn(<<Drame>>)
                  [] i = 3 -> JsonColumn(<<Action, Drame>>)
                  [] i = 4 -> NullColumn
                  [] OTHER -> JsonColumn(<<>>),
     watch_providers |-> CASE i \in {1, 4} -> JsonColumn(<<Netflix>>)
                           [] i = 2 -> JsonColumn(<<NetflixKids>>)
                           [] i = 3 -> JsonColumn(<<Netflix, NetflixKids>>)
                           [] i = 5 -> NullColumn
                           [] OTHER -> JsonColumn(<<>>)]

\* Film.runtime compared with a number: NULL, hence not selected, when NULL
QueryDuration(f, duration) ==
    IF duration = None \/ duration = "" \/ duration = "any" THEN TRUE
    ELSE IF duration = "<90" THEN ~f.runtime.is_null /\ f.runtime.value < 90
    ELSE IF duration = "90-120"
         THEN ~f.runtime.is_null /\ f.runtime.value >= 90 /\ f.runtime.value <= 120
    ELSE IF duration = ">120" THEN ~f.runtime.is_null /\ f.runtime.value > 120
    ELSE TRUE

QueryPlatforms(f, platforms, bound_as_json) ==
    IF ~Truthy(platforms) THEN TRUE
    ELSE LET named == SelectSeq(platforms.ids, LAMBDA x : x # Other)
         IN named = <<>> \/
            \E k \in 1..Len(named) :
               Contains(f.watch_providers, named[k], bound_as_json)

QueryGenres(f, genres, bound_as_json) ==
    IF ~Truthy(genres) \/ Surprise \in Range(genres.ids) THEN TRUE
    ELSE \E k \in 1..Len(genres.ids) :
            Contains(f.genres, genres.ids[k], bound_as_json)

\* get_films_with_embeddings: the ids of the rows selected
SelectFilmsWithEmbeddings(rows, duration, platforms, genres, bound_as_json) ==
    {i \in rows : /\ QueryDuration(CatalogFilm(i), duration)
                  /\ QueryPlatforms(CatalogFilm(i), platforms, bound_as_json)
                  /\ QueryGenres(CatalogFilm(i), genres, bound_as_json)}

QueryDurations == Durations \cup {None, ""}

QueryPlatformLists ==
    {NoList, OptList(<<>>), OptList(<<Other>>), OptList(<<Netflix>>),
     OptList(<<Other, Netflix>>)}

QueryGenreLists ==
    {NoList, OptList(<<>>), OptList(<<Action>>), OptList(<<LowerAction>>),
     OptList(<<Surprise>>), OptList(<<Drame, Surprise>>),
     OptList(<<Action, Drame>>)}

CatalogInit ==
    /\ FreshProcess
    /\ settings = DefaultSettings
    /\ films = {}
    /\ call = NoCall

CatalogQuery ==
    /\ call.op = "none"
    /\ \E rows \in SUBSET CatalogFilmIds, duration \in QueryDurations,
          platforms \in QueryPlatformLists, genres \in QueryGenreLists,
          bound_as_json \in BOOLEAN :
          call' = [op |-> "get_films_with_embeddings", rows |-> rows,
                   duration |-> duration, platforms |-> platforms,
                   genres |-> genres, bound_as_json |-> bound_as_json,
                   result |-> SelectFilmsWithEmbeddings(rows, duration, platforms,
                                                        genres, bound_as_json)]
    /\ UNCHANGED <<now, llm_cache, film_ids, film_embeddings, requests,
                   initialized, settings, films, prev, lastSet, tasks, admitted>>

CatalogNext == CatalogQuery

SpecCatalog == CatalogInit /\ [][CatalogNext]_vars

\* the labels of a JSON column; none when it is NULL
LabelsOf(column) == IF column.is_null THEN {} ELSE Range(column.labels)

\* the predicates as claimed, on the labels of the film
InBucket(f, duration) ==
    CASE duration = "<90" -> ~f.runtime.is_null /\ f.runtime.value < 90
      [] duration = "90-120" -> /\ ~f.runtime.is_null
                                /\ 90 <= f.runtime.value /\ f.runtime.value <= 120
      [] duration = ">120" -> ~f.runtime.is_null /\ f.runtime.value > 120
      [] OTHER -> TRUE

OnPlatform(f, platforms) ==
    LET named == Range(platforms.ids) \ {Other}
    IN named = {} \/ named \cap LabelsOf(f.watch_providers) # {}

OfGenre(f, genres) ==
    \/ Range(genres.ids) = {}
    \/ Surprise \in Range(genres.ids)
    \/ Range(genres.ids) \cap LabelsOf(f.genres) # {}

\* C29 (as claimed): get_films_with_embeddings selects exactly the films
\* that are in the duration bucket asked for (any film for 'any' or no
\* bucket), carry at least one of the platforms asked for other than 'other'
\* (any film when no such platform is asked for) and carry at least one of
\* the genres asked for (any film when 'surprise' is among them or none is
\* asked for).
C29_SelectsExactlyMatching ==
    call.op = "get_films_with_embeddings" =>
       call.result = {i \in call.rows :
                         /\ InBucket(CatalogFilm(i), call.duration)
                         /\ OnPlatform(CatalogFilm(i), call.platforms)
                         /\ OfGenre(CatalogFilm(i), call.genres)}


(***************************************************************************)
(* SpecRank: one request served in live mode over a catalog of three films *)
(* or of six, the external model failing, replying with text that does not *)
(* parse, or replying with a document.                                     *)
(***************************************************************************)
RankCatalogs == {{1, 2, 3}, {1, 2, 3, 4, 5, 6}}

RankReplies == LlmReplies(WellFormedDocs({IntId(1)}, {IntId(2)}, 1))

RankInit ==
    /\ FreshProcess
    /\ settings = [llm_mock_mode |-> FALSE, gemini_api_key |-> "key"]
    /\ films \in RankCatalogs
    /\ call = NoCall

RecommendRanked ==
    /\ call.op = "none"
    /\ \E answers \in Requests :
          \E r \in GetRecommendations(answers, RankReplies) :
             /\ Served(answers, r)
             /\ call' = [ranked |-> r.ranked] @@ CallOf(answers, r)

RankNext == RecommendRanked

SpecRank == RankInit /\ [][RankNext]_vars

\* the similarity of a film of the catalog to a mood text
RetrievalScore(film_id, mood) ==
    DotFixed(UnitVectorOf(film_id),
             DivideByNorm(Encode(mood), NormOfRaw(Encode(mood))))

\* the fallback result as claimed, from the ids of the candidates
ClaimedFallback(candidates) ==
    [primary |-> [film_id |-> IntId(candidates[1]),
                  title |-> FilmRow(candidates[1]).title,
                  reasoning |-> FALLBACK_REASONING, tagline |-> None],
     secondary |-> [k \in 1..Min(4, Len(candidates) - 1) |->
                      [film_id |-> IntId(candidates[k + 1]),
                       title |-> FilmRow(candidates[k + 1]).title,
                       reasoning |-> None, tagline |-> GENERIC_TAGLINE]]]

\* C31: the candidates handed to the ranker are in order of similarity, the
\* closest first; when the ranker falls back on one candidate or more, its
\* primary is the first candidate with the generic justification and its
\* secondaries are the next min(4, n - 1) candidates, in that order, each
\* with the generic tagline.
C31_FallbackFollowsRetrievalOrder ==
    (call.op = "get_recommendations" /\ call.gen_path # "none") =>
       /\ \A i, j \in 1..Len(call.candidates) :
             i < j => RetrievalScore(call.candidates[i], call.answers.mood)
                         >= RetrievalScore(call.candidates[j], call.answers.mood)
       /\ (call.gen_path = "fallback" /\ call.candidates # <<>>) =>
             /\ call.ranked.primary = ClaimedFallback(call.candidates).primary
             /\ call.ranked.secondary = ClaimedFallback(call.candidates).secondary

\* a fallback on six candidates that are not in order of id
C31_Witness ==
    /\ call.op = "get_recommendations" /\ call.gen_path = "fallback"
    /\ call.raised = None
    /\ Len(call.candidates) = 6
    /\ Len(call.ranked.secondary) = 4
    /\ \E i \in 1..5 : call.candidates[i] > call.candidates[i + 1]

\* the score find_similar gives a film for a mood text: the similarity, kept
\* within [0, 1]
ClampedScore(film_id, mood) == Max(0, Min(Scale, RetrievalScore(film_id, mood)))

\* C37: in a computed response the primary carries the reasoning of the
\* ranker's primary, also when the ranker named no candidate and the first
\* candidate stands in; the primary and every secondary carry the retrieval
\* score of the film they are.
C37_ReasoningAndOwnScore ==
    Computed(call) =>
       /\ call.response.primary.reasoning = call.ranked.primary.reasoning
       /\ call.response.primary.similarity_score =
             ClampedScore(call.response.primary.id, call.answers.mood)
       /\ \A k \in 1..Len(call.response.secondary) :
             call.response.secondary[k].similarity_score =
                ClampedScore(call.response.secondary[k].id, call.answers.mood)

\* the ranker gave a reasoning for a primary that is no candidate: the first
\* candidate stands in, and a secondary has another score than it
C37_Witness ==
    /\ Computed(call)
    /\ call.ranked.primary.film_id = IntId(99)
    /\ call.ranked.primary.reasoning = "llm-reasoning"
    /\ call.response.primary.id = call.candidates[1]
    /\ \E k \in 1..Len(call.response.secondary) :
          call.response.secondary[k].similarity_score
             # call.response.primary.similarity_score

(***************************************************************************)
(* SpecGetConc: calls of CacheService.get, each on its own database        *)
(* session, interleaving at the awaits, over a table written at time 0: a  *)
(* call reads the row of its key and returns unless the row has expired    *)
(* (GetSelect), and later deletes the row it read and commits (GetDelete). *)
(* The DELETE is by primary key; a session whose DELETE matches no row     *)
(* warns and goes on (the mapper has no version counter).                  *)
(***************************************************************************)
\* the tables set has written at time 0
SeededTables ==
    {{create_with_ttl(k, "payload-1", TTL_DAYS, 0) : k \in keys}
        : keys \in SUBSET CacheKeys}

GetConcInit ==
    /\ now = 0
    /\ llm_cache \in SeededTables
    /\ film_ids = <<>>
    /\ film_embeddings = NoMatrix
    /\ requests = <<>>
    /\ initialized = FALSE
    /\ prev = NoCall
    /\ lastSet = <<>>
    /\ tasks = <<>>
    /\ admitted = <<>>
    /\ settings = DefaultSettings
    /\ films = {}
    /\ call = NoCall

\* get up to the await of the delete: the row read, returned if it is live
GetSelect ==
    /\ Len(tasks) < MaxTasks
    /\ \E k \in CacheKeys :
          LET found == ScalarOneOrNone(RowsOf(llm_cache, k))
              expired == found.rows # {} /\ is_expired(TheRow(found), now)
          IN tasks' = Append(tasks,
                 [pc |-> IF expired THEN "expired" ELSE "done",
                  key |-> k, at |-> now,
                  existing |-> found.rows,
                  result |-> IF found.rows = {} \/ expired THEN Absent
                             ELSE Text(TheRow(found).response),
                  raised |-> None,
                  matched |-> 0])
    /\ call' = [op |-> "get"]
    /\ UNCHANGED <<now, llm_cache, film_ids, film_embeddings, requests, initialized,
                   settings, films, prev, lastSet, admitted>>

\* a DELETE that must match the row it was issued for
GetDeleteConfirmed ==
    /\ \E i \in 1..Len(tasks) :
          /\ tasks[i].pc = "expired"
          /\ LET matched == Cardinality(tasks[i].existing \cap llm_cache)
             IN /\ llm_cache' = llm_cache \ tasks[i].existing
                /\ tasks' = [tasks EXCEPT ![i].pc = "done", ![i].matched = matched,
                                          ![i].raised = IF matched = 0
                                                        THEN "StaleDataError"
                                                        ELSE None]
    /\ call' = [op |-> "get"]
    /\ UNCHANGED <<now, film_ids, film_embeddings, requests, initialized,
                   settings, films, prev, lastSet, admitted>>

\* get from the await on: the row read is deleted, the session commits
GetDelete ==
    /\ \E i \in 1..Len(tasks) :
          /\ tasks[i].pc = "expired"
          /\ llm_cache' = llm_cache \ tasks[i].existing
          /\ tasks' = [tasks EXCEPT ![i].pc = "done",
                                    ![i].matched =
                                       Cardinality(tasks[i].existing \cap llm_cache)]
    /\ call' = [op |-> "get"]
    /\ UNCHANGED <<now, film_ids, film_embeddings, requests, initialized,
                   settings, films, prev, lastSet, admitted>>

GetConcNext == GetSelect \/ GetDelete \/ Tick

SpecGetConc == GetConcInit /\ [][GetConcNext]_vars

\* C38: two calls of get that both read the same expired entry before either
\* deleted it both return absent, neither raises, and the entry is gone.
C38_ConcurrentExpiredGet ==
    \A i, j \in 1..Len(tasks) :
       (/\ i # j
        /\ tasks[i].pc = "done" /\ tasks[j].pc = "done"
        /\ tasks[i].key = tasks[j].key
        /\ tasks[i].existing # {} /\ tasks[i].existing = tasks[j].existing
        /\ is_expired(TheRow([rows |-> tasks[i].existing]), tasks[i].at)
        /\ is_expired(TheRow([rows |-> tasks[j].existing]), tasks[j].at))
          => /\ tasks[i].result = Absent /\ tasks[j].result = Absent
             /\ tasks[i].raised = None /\ tasks[j].raised = None
             /\ RowsOf(llm_cache, tasks[i].key) = {}

\* two calls read the same expired entry; the DELETE of one matched it, the
\* DELETE of the other matched nothing
C38_Witness ==
    \E i, j \in 1..Len(tasks) :
       /\ i # j
       /\ tasks[i].pc = "done" /\ tasks[j].pc = "done"
       /\ tasks[i].existing # {} /\ tasks[i].existing = tasks[j].existing
       /\ is_expired(TheRow([rows |-> tasks[i].existing]), tasks[i].at)
       /\ tasks[i].matched = 1 /\ tasks[j].matched = 0

====
